---- MODULE Spec2Model ----
(***************************************************************************)
(* A state-machine model of the AMQP topology manager: the Connection      *)
(* supervisor (connect / retry loop, error and close handlers, rebuild),   *)
(* the registry of Exchange / Queue / Binding objects, and the promise     *)
(* chains through which they are asserted, bound, consumed and deleted.    *)
(*                                                                         *)
(* Promises are modelled as tasks: a task is one promise chain, its phase  *)
(* says which broker request it is waiting for, and it doubles as the      *)
(* latch that other chains wait on.  Every handler of the code is an       *)
(* operator from state record to state record, so that a handler that      *)
(* calls other handlers is their composition.                              *)
(***************************************************************************)
EXTENDS Integers, Sequences, FiniteSets, TLC

VARIABLES
  retries,     \* reconnectStrategy.retries (0 = forever)
  under,       \* underlying broker connections ever opened, by id
  cur,         \* Connection._connection (0 = undefined)
  rebuilding,  \* Connection._rebuilding
  isClosing,   \* Connection._isClosing
  seqs,        \* connect-attempt sequences; seqs[i].latch is the Connection.initialized they settle
  connInit,    \* Connection.initialized: an index of seqs
  objs,        \* Exchange and Queue objects ever constructed, by id
  exchanges,   \* Connection._exchanges: name -> object, in insertion order
  queues,      \* Connection._queues
  bindings,    \* Connection._bindings: id -> Binding object
  bobjs,       \* Binding objects ever constructed, by id
  chans,       \* broker channels ever opened, by id
  subs,        \* consumer subscriptions the broker holds
  tasks,       \* promise chains ever started, by id
  proms,       \* Promise.all results handed to the caller
  fails,       \* number of requests the broker has refused
  message,     \* a Message object: its content and properties.contentType
  log          \* the last call observed at the API: its arguments and result

vars == <<retries, under, cur, rebuilding, isClosing, seqs, connInit, objs,
          exchanges, queues, bindings, bobjs, chans, subs, tasks, proms, fails, message, log>>

\* ------------------------------------------------------------------ bounds
MaxSeqs == 3
MaxRetry == 3
MaxObjs == 2
MaxFails == 1
MaxBinds == 1
MaxDeleteCalls == 1
MaxTopoSeqs == 2
MaxTopoTasks == 4
MaxDelTasks == 9
MaxRebuildTasks == 4
MaxLiveTasks == 5
MaxCloseTasks == 4
MaxCloseConns == 3
MaxStopTasks == 5
MaxBindTasks == 5
MaxReplaySeqs == 3
MaxReplayConns == 3
MaxReplayTasks == 4
MaxRpcTasks == 7
MaxDeclTasks == 3
MaxDeclCalls == 1
MaxOrderTasks == 8
MaxIdLen == 1
MaxContentLen == 2
MaxRebindTasks == 6
MaxRebindConns == 2
MaxPrefetchTasks == 4
MaxPrefetchConns == 3
MaxConsumeTasks == 4
MaxResubTasks == 7
MaxResubConns == 2
MaxRetransmitTasks == 7
MaxRetransmitConns == 2
MaxAssertTasks == 4

RetriesOpts == {0, 1, 2}
ExNames == {<<"x">>}
QNames == {<<"q">>}
DefaultOpts == [noCreate |-> FALSE, prefetch |-> 0]
ExDecls == {[type |-> "direct", opts |-> DefaultOpts],
            [type |-> "fanout", opts |-> [noCreate |-> TRUE, prefetch |-> 0]]}
Patterns == {<<>>}
OneConsumer == [cb |-> 1, opts |-> 11]

\* ------------------------------------------------------- the state as a record
St ==
  [retries |-> retries, under |-> under, cur |-> cur, rebuilding |-> rebuilding,
   isClosing |-> isClosing, seqs |-> seqs, connInit |-> connInit, objs |-> objs,
   exchanges |-> exchanges, queues |-> queues, bindings |-> bindings,
   bobjs |-> bobjs, chans |-> chans, subs |-> subs, tasks |-> tasks, proms |-> proms,
   fails |-> fails, message |-> message, log |-> log]

Becomes(n) ==
  /\ retries' = n.retries
  /\ under' = n.under
  /\ cur' = n.cur
  /\ rebuilding' = n.rebuilding
  /\ isClosing' = n.isClosing
  /\ seqs' = n.seqs
  /\ connInit' = n.connInit
  /\ objs' = n.objs
  /\ exchanges' = n.exchanges
  /\ queues' = n.queues
  /\ bindings' = n.bindings
  /\ bobjs' = n.bobjs
  /\ chans' = n.chans
  /\ subs' = n.subs
  /\ tasks' = n.tasks
  /\ proms' = n.proms
  /\ fails' = n.fails
  /\ message' = n.message
  /\ log' = n.log

\* ------------------------------------------- a JS object used as a map
\* A sequence of [k, v] pairs: Object.keys lists the keys in insertion order.
RECURSIVE MapHas(_, _)
MapHas(m, k) == m # <<>> /\ (Head(m).k = k \/ MapHas(Tail(m), k))

RECURSIVE MapGet(_, _)
MapGet(m, k) == IF m = <<>> THEN 0 ELSE IF Head(m).k = k THEN Head(m).v ELSE MapGet(Tail(m), k)

RECURSIVE MapDel(_, _)
MapDel(m, k) ==
  IF m = <<>> THEN <<>>
  ELSE IF Head(m).k = k THEN Tail(m) ELSE <<Head(m)>> \o MapDel(Tail(m), k)

MapPut(m, k, v) ==
  IF MapHas(m, k)
  THEN [i \in 1..Len(m) |-> IF m[i].k = k THEN [k |-> k, v |-> v] ELSE m[i]]
  ELSE Append(m, [k |-> k, v |-> v])

MapVals(m) == [i \in 1..Len(m) |-> m[i].v]

Range(f) == {f[i] : i \in DOMAIN f}

NoCall == [op |-> "new", name |-> <<>>, ret |-> 0, existed |-> FALSE, pre |-> 0, made |-> FALSE]

\* ------------------------------------------------------------------ tasks
\* rb is history: the connect sequence in progress (_rebuilding true) when a publish
\* or a consume was chained, 0 when there was none; n is history: the place of a
\* publish among the publishes issued so far
NewTask(kind, o, w) ==
  [kind |-> kind, o |-> o, ph |-> "wait", w |-> w, ws |-> {}, u |-> 0, c |-> 0,
   rq |-> "none", arg |-> 0, rb |-> 0, n |-> 0]

InProgress(s) == IF s.rebuilding THEN s.connInit ELSE 0

Alive(s, u) == u # 0 /\ s.under[u].st = "open"

\* ============================================================ Connection
\* .then(log).catch(log).finally(...) of rebuildConnection: what the promise stored in
\* Connection.initialized settles to, given how tryToConnect settled.
ThenLog(outcome) == outcome        \* .then(() => log(...)): a rejection passes through
CatchLog(outcome) == "fulfilled"   \* .catch((_err) => log(...)): the handler returns normally
InitializedOutcome(tryOutcome) == CatchLog(ThenLog(tryOutcome))

\* a settlement that leaves the _rebuilding flag set
SettleSequenceKeepFlag(s, q, tryOutcome) ==
  [s EXCEPT !.seqs[q].ph = IF tryOutcome = "fulfilled" THEN "done" ELSE "exhausted",
            !.seqs[q].latch = InitializedOutcome(tryOutcome)]

SettleSequence(s, q, tryOutcome) ==
  [s EXCEPT !.seqs[q].ph = IF tryOutcome = "fulfilled" THEN "done" ELSE "exhausted",
            !.seqs[q].latch = InitializedOutcome(tryOutcome),
            !.rebuilding = FALSE]

tryToConnect(s, q, retry) ==
  [s EXCEPT !.seqs[q].ph = "connecting", !.seqs[q].retry = retry,
            !.seqs[q].attempts = @ + 1]

RebuildGuardMutant(s) == FALSE

RebuildGuard(s) == s.rebuilding

rebuildConnection(s) ==
  IF RebuildGuard(s)
  THEN [s EXCEPT !.log = [op |-> "rebuildConnection", name |-> <<>>, ret |-> s.connInit,
                          existed |-> s.rebuilding, pre |-> s.connInit, made |-> FALSE]]
  ELSE LET q == Len(s.seqs) + 1
           s1 == [s EXCEPT !.rebuilding = TRUE, !.isClosing = FALSE,
                           !.seqs = Append(@, [ph |-> "new", retry |-> 0, attempts |-> 0,
                                               sleeps |-> 0, latch |-> "pending"]),
                           !.connInit = q,
                           !.log = [op |-> "rebuildConnection", name |-> <<>>, ret |-> q,
                                    existed |-> s.rebuilding, pre |-> s.connInit,
                                    made |-> TRUE]]
       IN tryToConnect(s1, q, 0)

ExhaustedMutant(s, retry) == s.retries # 0 /\ s.retries <= retry

ExhaustedAlways(s, retry) == s.retries < retry

Exhausted(s, retry) == s.retries # 0 /\ s.retries < retry

retryConnection(s, q, retry) ==
  IF Exhausted(s, retry)
  THEN SettleSequence(s, q, "rejected")
  ELSE [s EXCEPT !.seqs[q].ph = "sleeping", !.seqs[q].retry = retry]

attachEventListeners(s, q) ==
  [s EXCEPT !.under = Append(@, [st |-> "open", errL |-> TRUE, closeL |-> TRUE, by |-> q])]

connectResolved(s, q) ==
  LET s1 == attachEventListeners(s, q)
      s2 == [s1 EXCEPT !.cur = Len(s1.under)]
  IN SettleSequence(s2, q, "fulfilled")

connectRejected(s, q) == retryConnection(s, q, s.seqs[q].retry + 1)

timerFired(s, q) ==
  tryToConnect([s EXCEPT !.seqs[q].sleeps = @ + 1], q, s.seqs[q].retry)

\* Connection.close: sets _isClosing and chains the close of the underlying
\* connection on the current Connection.initialized; [s, t], t the promise returned
connectionClose(s) ==
  [s |-> [s EXCEPT !.isClosing = TRUE,
                   !.tasks = Append(@, [kind |-> "connClose", o |-> 0, ph |-> "wait",
                                        w |-> s.connInit, ws |-> {}, u |-> 0, c |-> 0,
                                        rq |-> "none", arg |-> 0, rb |-> 0, n |-> 0])],
   t |-> Len(s.tasks) + 1]

\* .then(() => this._connection.close()): _connection is read when the callback runs
connCloseRun(s, t) ==
  IF s.cur = 0
  THEN [s EXCEPT !.tasks[t].ph = "rejected"]          \* _connection is undefined
  ELSE IF s.under[s.cur].st # "open"
       THEN [s EXCEPT !.tasks[t].ph = "rejected"]     \* the connection is already closed
       ELSE [s EXCEPT !.under[s.cur].st = "closing", !.tasks[t].ph = "connCloseReq",
                      !.tasks[t].u = s.cur, !.tasks[t].rq = "connectionClose"]

\* the close of the underlying connection u has completed: the close() promises on it settle
closeSettled(s, u) ==
  [s EXCEPT !.tasks = [t \in DOMAIN s.tasks |->
                         IF s.tasks[t].ph = "connCloseReq" /\ s.tasks[t].u = u
                         THEN [s.tasks[t] EXCEPT !.ph = "ok"] ELSE s.tasks[t]]]

\* ================================================= Exchange and Queue objects
NewNode(kind, name, type, opts) ==
  [kind |-> kind, name |-> name, type |-> type, opts |-> opts, conn |-> TRUE, ch |-> 0,
   init |-> 0, deleting |-> 0, closing |-> 0, consumer |-> 0, consumerOptions |-> 0,
   consumerTag |-> 0, consumerInit |-> 0, consumerStopping |-> FALSE,
   dropped |-> FALSE, deleted |-> FALSE]

\* Exchange._initialize / Queue._initialize: a new chain on the current Connection.initialized
nodeInitialize(s, o) ==
  [s EXCEPT !.tasks = Append(@, NewTask("init", o, s.connInit)),
            !.objs[o].init = Len(s.tasks) + 1]

\* Queue._initializeConsumer: a new chain on the queue's current initialized
initializeConsumer(s, o) ==
  [s EXCEPT !.tasks = Append(@, [NewTask("consume", o, s.objs[o].init) EXCEPT
                                   !.rb = InProgress(s)]),
            !.objs[o].consumerInit = Len(s.tasks) + 1]

\* Binding._initialize: a new chain on the destination's current initialized
bindingInitialize(s, b) ==
  [s EXCEPT !.tasks = Append(@, NewTask("bind", b, s.objs[s.bobjs[b].dst].init)),
            !.bobjs[b].init = Len(s.tasks) + 1]

ExchangeNew(s, name, type, opts) ==
  LET o == Len(s.objs) + 1
      s1 == [s EXCEPT !.objs = Append(@, NewNode("E", name, type, opts)),
                      !.exchanges = MapPut(@, name, o)]
  IN nodeInitialize(s1, o)

QueueNew(s, name, opts) ==
  LET o == Len(s.objs) + 1
      s1 == [s EXCEPT !.objs = Append(@, NewNode("Q", name, "", opts)),
                      !.queues = MapPut(@, name, o)]
  IN nodeInitialize(s1, o)

DeclareLookupMutant(m, name) == 0

DeclareLookup(m, name) == MapGet(m, name)

\* a declaration that reconfigures the registered exchange with the new arguments
declareExchangeOverwrite(s, name, type, opts) ==
  LET found == DeclareLookup(s.exchanges, name) IN
  IF found # 0
  THEN [s EXCEPT !.objs[found].type = type, !.objs[found].opts = opts,
                 !.log = [op |-> "declareExchange", name |-> name, ret |-> found,
                          existed |-> TRUE, pre |-> found, made |-> FALSE]]
  ELSE [ExchangeNew(s, name, type, opts) EXCEPT
          !.log = [op |-> "declareExchange", name |-> name, ret |-> Len(s.objs) + 1,
                   existed |-> FALSE, pre |-> 0, made |-> TRUE]]

declareExchange(s, name, type, opts) ==
  LET found == DeclareLookup(s.exchanges, name) IN
  IF found # 0
  THEN [s EXCEPT !.log = [op |-> "declareExchange", name |-> name, ret |-> found,
                          existed |-> MapHas(s.exchanges, name),
                          pre |-> MapGet(s.exchanges, name), made |-> FALSE]]
  ELSE [ExchangeNew(s, name, type, opts) EXCEPT
          !.log = [op |-> "declareExchange", name |-> name, ret |-> Len(s.objs) + 1,
                   existed |-> MapHas(s.exchanges, name),
                   pre |-> MapGet(s.exchanges, name), made |-> TRUE]]

declareQueue(s, name, opts) ==
  LET found == DeclareLookup(s.queues, name) IN
  IF found # 0
  THEN [s EXCEPT !.log = [op |-> "declareQueue", name |-> name, ret |-> found,
                          existed |-> MapHas(s.queues, name),
                          pre |-> MapGet(s.queues, name), made |-> FALSE]]
  ELSE [QueueNew(s, name, opts) EXCEPT
          !.log = [op |-> "declareQueue", name |-> name, ret |-> Len(s.objs) + 1,
                   existed |-> MapHas(s.queues, name),
                   pre |-> MapGet(s.queues, name), made |-> TRUE]]


\* ================================================================ Binding
TypeString(kind) ==
  IF kind = "Q" THEN <<"Q", "u", "e", "u", "e">>
  ELSE <<"E", "x", "c", "h", "a", "n", "g", "e">>

\* Binding.id: `[${src}]to${type}[${dst}]${pattern}`, strings as sequences of characters
BindingId(dstName, dstKind, srcName, pattern) ==
  <<"[">> \o srcName \o <<"]", "t", "o">> \o TypeString(dstKind)
    \o <<"[">> \o dstName \o <<"]">> \o pattern

BindingKey(s, b) ==
  BindingId(s.objs[s.bobjs[b].dst].name, s.objs[s.bobjs[b].dst].kind,
            s.objs[s.bobjs[b].src].name, s.bobjs[b].pattern)

\* new Binding(destination, source, pattern): registers itself and starts its chain
BindingNew(s, dst, src, pattern) ==
  LET b == Len(s.bobjs) + 1
      s1 == [s EXCEPT !.bobjs = Append(@, [src |-> src, dst |-> dst, pattern |-> pattern,
                                           init |-> 0, unbound |-> FALSE])]
      s2 == [s1 EXCEPT !.bindings = MapPut(@, BindingKey(s1, b), b)]
  IN bindingInitialize(s2, b)

\* ------------------------------------------------------------- declareTopology
\* a property a topology entry leaves out; as the key of a map it reads "undefined"
Undefined == <<"undefined">>

\* destination.bind(source, pattern): r = [s, t, err], t the binding's initialized
nodeBind(s, dst, src, pattern) ==
  IF ~s.objs[dst].conn
  THEN [s |-> s, t |-> 0, err |-> "TypeError"]   \* this._destination._connection._bindings
  ELSE [s |-> BindingNew(s, dst, src, pattern), t |-> Len(s.tasks) + 1, err |-> ""]

\* the older declareTopology: whatever is not an exchange is taken to be a queue
bindingDestinationUnchecked(s, binding) ==
  LET s1 == IF binding.exchange # Undefined
            THEN declareExchange(s, binding.exchange, "", DefaultOpts)
            ELSE declareQueue(s, binding.queue, DefaultOpts)
  IN [s |-> s1, d |-> s1.log.ret, err |-> ""]

\* the destination of a topology binding: r = [s, d, err]
bindingDestination(s, binding) ==
  IF binding.exchange # Undefined
  THEN LET s1 == declareExchange(s, binding.exchange, "", DefaultOpts)
       IN [s |-> s1, d |-> s1.log.ret, err |-> ""]
  ELSE IF binding.queue # Undefined
  THEN LET s1 == declareQueue(s, binding.queue, DefaultOpts)
       IN [s |-> s1, d |-> s1.log.ret, err |-> ""]
  ELSE [s |-> s, d |-> 0, err |-> "InvalidBinding"]

\* The loops of declareTopology. r = [s, ws, err]: err is set once a call has thrown,
\* and the rest of declareTopology is then not executed.
RECURSIVE DeclareExchanges(_, _)
DeclareExchanges(r, ns) ==
  IF ns = <<>> THEN r
  ELSE LET s1 == declareExchange(r.s, Head(ns), "direct", DefaultOpts)
       IN DeclareExchanges([r EXCEPT !.s = s1, !.ws = @ \cup {s1.objs[s1.log.ret].init}],
                           Tail(ns))

RECURSIVE DeclareQueues(_, _)
DeclareQueues(r, ns) ==
  IF ns = <<>> THEN r
  ELSE LET s1 == declareQueue(r.s, Head(ns), DefaultOpts)
       IN DeclareQueues([r EXCEPT !.s = s1, !.ws = @ \cup {s1.objs[s1.log.ret].init}],
                        Tail(ns))

RECURSIVE DeclareBindings(_, _)
DeclareBindings(r, bs) ==
  IF bs = <<>> \/ r.err # "" THEN r
  ELSE LET s1 == declareExchange(r.s, Head(bs).source, "", DefaultOpts)
           d == bindingDestination(s1, Head(bs))
           b == nodeBind(d.s, d.d, s1.log.ret, Head(bs).pattern)
       IN IF d.err # "" THEN [r EXCEPT !.s = d.s, !.err = d.err]
          ELSE IF b.err # "" THEN [r EXCEPT !.s = b.s, !.err = b.err]
          ELSE DeclareBindings([r EXCEPT !.s = b.s, !.ws = @ \cup {b.t}], Tail(bs))

\* a declareTopology that validates its bindings before it declares anything
declareTopologyValidated(s, topology) ==
  IF \E i \in DOMAIN topology.bindings :
       topology.bindings[i].exchange = Undefined /\ topology.bindings[i].queue = Undefined
  THEN [s |-> s, ws |-> {}, err |-> "InvalidBinding"]
  ELSE DeclareBindings(DeclareQueues(DeclareExchanges([s |-> s, ws |-> {}, err |-> ""],
                                                      topology.exchanges),
                                     topology.queues),
                       topology.bindings)

declareTopology(s, topology) ==
  LET r1 == DeclareExchanges([s |-> s, ws |-> {}, err |-> ""], topology.exchanges)
      r2 == DeclareQueues(r1, topology.queues)
  IN DeclareBindings(r2, topology.bindings)

\* Binding.delete: a chain on the destination's current initialized
bindingDelete(s, b) ==
  [s EXCEPT !.tasks = Append(@, NewTask("unbind", b, s.objs[s.bobjs[b].dst].init))]

RECURSIVE DeleteBindings(_, _)
DeleteBindings(r, bs) ==
  IF bs = <<>> THEN r
  ELSE DeleteBindings([s |-> bindingDelete(r.s, Head(bs)),
                       ws |-> r.ws \cup {Len(r.s.tasks) + 1}], Tail(bs))

Contains(s, b, o) == s.bobjs[b].src = o \/ s.bobjs[b].dst = o

\* Binding.removeBindingsContaining: [s, ws], ws the promises Promise.all waits for
removeBindingsContaining(s, o) ==
  DeleteBindings([s |-> s, ws |-> {}],
                 SelectSeq(MapVals(s.bindings), LAMBDA b : Contains(s, b, o)))

\* the catch of Binding._initialize
bindFailed(s, t) ==
  LET b == s.tasks[t].o IN
  IF ~s.objs[s.bobjs[b].dst].conn
  THEN [s EXCEPT !.tasks[t].ph = "stuck"]   \* the handler throws: the promise never settles
  ELSE [s EXCEPT !.bindings = MapDel(@, BindingKey(s, b)), !.tasks[t].ph = "rejected"]

\* the destination's initialized has settled: bindQueue / bindExchange on its channel
bindRun(s, t) ==
  LET b == s.tasks[t].o
      dst == s.bobjs[b].dst
      w == s.tasks[t].w
  IN IF w = 0 \/ s.tasks[w].ph # "ok" \/ s.objs[dst].ch = 0
     THEN bindFailed(s, t)
     ELSE [s EXCEPT !.tasks[t].ph = "bindReq", !.tasks[t].c = s.objs[dst].ch,
                    !.tasks[t].u = s.chans[s.objs[dst].ch].u,
                    !.tasks[t].rq = IF s.objs[dst].kind = "Q" THEN "bindQueue"
                                    ELSE "bindExchange"]

unbindRun(s, t) ==
  LET b == s.tasks[t].o
      dst == s.bobjs[b].dst
      w == s.tasks[t].w
  IN IF w = 0 \/ s.tasks[w].ph # "ok" \/ s.objs[dst].ch = 0
     THEN [s EXCEPT !.tasks[t].ph = "rejected"]
     ELSE [s EXCEPT !.tasks[t].ph = "unbindReq", !.tasks[t].c = s.objs[dst].ch,
                    !.tasks[t].u = s.chans[s.objs[dst].ch].u,
                    !.tasks[t].rq = IF s.objs[dst].kind = "Q" THEN "unbindQueue"
                                    ELSE "unbindExchange"]

\* the then of Binding.delete
unbound(s, t) ==
  LET b == s.tasks[t].o IN
  IF ~s.objs[s.bobjs[b].dst].conn
  THEN [s EXCEPT !.tasks[t].ph = "rejected"]
  ELSE [s EXCEPT !.bindings = MapDel(@, BindingKey(s, b)), !.bobjs[b].unbound = TRUE,
                 !.tasks[t].ph = "ok"]

\* ============================================ the chain of _initialize
\* Connection.initialized has resolved: this._connection._connection.createChannel()
initRun(s, t) ==
  IF ~s.objs[s.tasks[t].o].conn \/ ~Alive(s, s.cur)
  THEN [s EXCEPT !.tasks[t].ph = "rejected"]
  ELSE [s EXCEPT !.tasks[t].ph = "chanReq", !.tasks[t].u = s.cur]

\* the request of createExchange / createQueue, with its arguments
initializeRequest(s, o) ==
  IF s.objs[o].kind = "E"
  THEN IF s.objs[o].opts.noCreate
       THEN <<"checkExchange", s.objs[o].name>>
       ELSE <<"assertExchange", s.objs[o].name, s.objs[o].type, s.objs[o].opts>>
  ELSE IF s.objs[o].opts.noCreate
       THEN <<"checkQueue", s.objs[o].name>>
       ELSE <<"assertQueue", s.objs[o].name>>

\* a channel that is used for the assertion but not stored in the node
channelCreatedNotStored(s, t) ==
  LET o == s.tasks[t].o
      c == Len(s.chans) + 1
  IN [s EXCEPT !.chans = Append(@, [u |-> s.tasks[t].u, open |-> TRUE, prefetch |-> 0,
                                    reply |-> s.objs[o].kind = "E", asserted |-> FALSE,
                                    listeners |-> {}, sent |-> initializeRequest(s, o)]),
               !.tasks[t].ph = "assertReq", !.tasks[t].c = c,
               !.tasks[t].rq = IF s.objs[o].opts.noCreate THEN "check" ELSE "assert"]

\* createReplyQueue (an Exchange) and createExchange / createQueue, up to the request
channelCreated(s, t) ==
  LET o == s.tasks[t].o
      c == Len(s.chans) + 1
  IN [s EXCEPT !.chans = Append(@, [u |-> s.tasks[t].u, open |-> TRUE, prefetch |-> 0,
                                    reply |-> s.objs[o].kind = "E", asserted |-> FALSE,
                                    listeners |-> {}, sent |-> initializeRequest(s, o)]),
               !.objs[o].ch = c,
               !.tasks[t].ph = "assertReq", !.tasks[t].c = c,
               !.tasks[t].rq = IF s.objs[o].opts.noCreate THEN "check" ELSE "assert"]

\* an assertion that resolves without applying the stored prefetch
assertedNoPrefetch(s, t) ==
  [s EXCEPT !.chans[s.tasks[t].c].asserted = TRUE, !.tasks[t].ph = "ok"]

asserted(s, t) ==
  LET o == s.tasks[t].o
      c == s.tasks[t].c
  IN [s EXCEPT !.chans[c].prefetch = IF s.objs[o].kind = "Q" /\ s.objs[o].opts.prefetch # 0
                                     THEN s.objs[o].opts.prefetch ELSE @,
               !.chans[c].asserted = TRUE,
               !.tasks[t].ph = "ok"]

\* Queue.prefetch(count): a chain on the queue's current initialized
queuePrefetch(s, o, count) ==
  [s EXCEPT !.tasks = Append(@, [NewTask("prefetch", o, s.objs[o].init) EXCEPT
                                   !.arg = count])]

\* the then of Queue.prefetch: basic.qos on the queue's channel (a rejected promise
\* when the channel is closed), then the count is stored in the options
prefetchRun(s, t) ==
  LET o == s.tasks[t].o
      c == s.objs[o].ch
  IN IF s.tasks[s.tasks[t].w].ph # "ok" \/ c = 0
     THEN [s EXCEPT !.tasks[t].ph = "rejected"]
     ELSE [s EXCEPT !.chans[c].prefetch = IF s.chans[c].open /\ Alive(s, s.chans[c].u)
                                          THEN s.tasks[t].arg ELSE @,
                    !.objs[o].opts.prefetch = s.tasks[t].arg,
                    !.tasks[t].c = c, !.tasks[t].u = s.chans[c].u, !.tasks[t].rq = "prefetch",
                    !.tasks[t].ph = "ok"]

\* history: the objects whose name has been taken out of the registry since they
\* were declared can no longer be returned by a declaration
Dropped(s, kind, name) ==
  [s EXCEPT !.objs = [o \in DOMAIN s.objs |->
                        IF s.objs[o].kind = kind /\ s.objs[o].name = name
                        THEN [s.objs[o] EXCEPT !.dropped = TRUE] ELSE s.objs[o]]]

Unregister(m, name) == MapDel(m, name)

\* the catch of createExchange / createQueue
assertFailed(s, t) ==
  LET o == s.tasks[t].o IN
  IF ~s.objs[o].conn
  THEN [s EXCEPT !.tasks[t].ph = "stuck"]
  ELSE IF s.objs[o].kind = "E"
       THEN [Dropped(s, "E", s.objs[o].name) EXCEPT
               !.exchanges = Unregister(@, s.objs[o].name), !.tasks[t].ph = "rejected"]
       ELSE [Dropped(s, "Q", s.objs[o].name) EXCEPT
               !.queues = Unregister(@, s.objs[o].name), !.tasks[t].ph = "rejected"]

\* ======================================================= Queue consumer
activateConsumer(s, o, cb, opts) ==
  IF s.objs[o].consumerInit = 0
  THEN initializeConsumer([s EXCEPT !.objs[o].consumerOptions = opts,
                                    !.objs[o].consumer = cb], o)
  ELSE s

consumeRun(s, t) ==
  LET o == s.tasks[t].o IN
  IF s.tasks[s.tasks[t].w].ph # "ok" \/ s.objs[o].ch = 0
  THEN [s EXCEPT !.tasks[t].ph = "rejected"]
  ELSE [s EXCEPT !.tasks[t].ph = "consumeReq", !.tasks[t].c = s.objs[o].ch,
                 !.tasks[t].u = s.chans[s.objs[o].ch].u, !.tasks[t].rq = "consume",
                 !.tasks[t].arg = s.objs[o].consumerOptions]

\* consume-ok: the broker holds the subscription, the tag is recorded
consumed(s, t) ==
  LET o == s.tasks[t].o IN
  [s EXCEPT !.subs = @ \cup {[tag |-> t, c |-> s.tasks[t].c, q |-> o,
                              opts |-> s.tasks[t].arg]},
            !.objs[o].consumerTag = t,
            !.tasks[t].ph = "ok"]

\* a wrapper that rejects the delivery when the callback's promise rejects
wrapConsumerNack(s, o, replyTo, outcome) ==
  [called |-> s.objs[o].consumer # 0, acks |-> 0,
   nacks |-> IF outcome = "reject" THEN 1 ELSE 0,
   replied |-> FALSE, err |-> ""]

\* Queue.wrapConsumer for a delivery whose properties hold a replyTo or not, where
\* the callback returns a value, a promise that resolves or rejects, or throws:
\* whether the callback was called, the acks and nacks the wrapper issues, whether
\* a reply is sent, and how the wrapper's own promise fails ("": it does not)
wrapConsumer(s, o, replyTo, outcome) ==
  IF s.objs[o].consumer = 0
  THEN [called |-> FALSE, acks |-> 0, nacks |-> 0, replied |-> FALSE, err |-> "TypeError"]
  ELSE IF outcome = "throw"
  THEN [called |-> TRUE, acks |-> 0, nacks |-> 0, replied |-> FALSE, err |-> "thrown"]
  ELSE IF outcome = "reject"
  THEN [called |-> TRUE, acks |-> 0, nacks |-> 0, replied |-> FALSE,
        err |-> IF replyTo THEN "rejected" ELSE ""]        \* await result
  ELSE IF replyTo /\ s.objs[o].ch = 0
  THEN [called |-> TRUE, acks |-> 0, nacks |-> 0, replied |-> FALSE, err |-> "TypeError"]
  ELSE [called |-> TRUE, acks |-> 0, nacks |-> 0,
        replied |-> replyTo /\ s.chans[s.objs[o].ch].open, err |-> ""]

invalidateConsumer(s, o) ==
  [s EXCEPT !.objs[o].consumerInit = 0, !.objs[o].consumer = 0,
            !.objs[o].consumerOptions = 0, !.objs[o].consumerStopping = FALSE]

\* _consumerInitialized has settled: channel.cancel(this._consumerTag)
cancelRun(s, t) ==
  LET o == s.tasks[t].o IN
  IF s.tasks[s.tasks[t].w].ph # "ok" \/ s.objs[o].ch = 0
  THEN [s EXCEPT !.tasks[t].ph = "rejected"]
  ELSE [s EXCEPT !.tasks[t].ph = "cancelReq", !.tasks[t].c = s.objs[o].ch,
                 !.tasks[t].u = s.chans[s.objs[o].ch].u, !.tasks[t].rq = "cancel",
                 !.tasks[t].arg = s.objs[o].consumerTag]

cancelled(s, t) ==
  LET o == s.tasks[t].o
      s1 == [s EXCEPT !.subs = {x \in @ : ~(x.tag = s.tasks[t].arg /\ x.c = s.tasks[t].c)},
                      !.objs[o].consumerStopping = TRUE]
  IN invalidateConsumer(s1, o)

\* Queue.stopConsumer called by the user: [s, t], t the promise (0: already resolved)
stopConsumer(s, o) ==
  IF s.objs[o].consumerInit = 0 \/ s.objs[o].consumerStopping
  THEN [s |-> s, t |-> 0]
  ELSE [s |-> [s EXCEPT !.tasks = Append(@, NewTask("stop", o, s.objs[o].consumerInit))],
        t |-> Len(s.tasks) + 1]

\* ======================================== the chains of delete() and close()
invalidateExchange(s, o) ==
  [Dropped(s, "E", s.objs[o].name) EXCEPT
     !.objs[o].init = 0, !.exchanges = MapDel(@, s.objs[o].name)]

invalidateQueue(s, o) ==
  [Dropped(s, "Q", s.objs[o].name) EXCEPT
     !.objs[o].init = 0, !.queues = MapDel(@, s.objs[o].name)]

removeConnection(s, o) == [s EXCEPT !.objs[o].ch = 0, !.objs[o].conn = FALSE]

Request(s, t, ph, rq) ==
  LET o == s.tasks[t].o IN
  IF s.objs[o].ch = 0
  THEN [s EXCEPT !.tasks[t].ph = "rejected"]      \* this._channel is undefined
  ELSE [s EXCEPT !.tasks[t].ph = ph, !.tasks[t].c = s.objs[o].ch,
                 !.tasks[t].u = s.chans[s.objs[o].ch].u, !.tasks[t].rq = rq]

\* .then(() => this._channel.close())
chainClose(s, t) == Request(s, t, "closeReq", "close")

\* .then(() => this.invalidateQueue()).then(() => this._channel.close())
chainInvalidateQueue(s, t) ==
  IF ~s.objs[s.tasks[t].o].conn
  THEN [s EXCEPT !.tasks[t].ph = "rejected"]
  ELSE chainClose(invalidateQueue(s, s.tasks[t].o), t)

\* .then(() => this.stopConsumer()) inside Queue.delete / Queue.close
chainStop(s, t) ==
  LET o == s.tasks[t].o IN
  IF s.objs[o].consumerInit = 0 \/ s.objs[o].consumerStopping
  THEN chainInvalidateQueue(s, t)
  ELSE [s EXCEPT !.tasks[t].ph = "stopWait", !.tasks[t].w = s.objs[o].consumerInit]

\* stopConsumer's own chain, run inside the queue's chain
chainCancel(s, t) ==
  IF s.tasks[s.tasks[t].w].ph # "ok"
  THEN [s EXCEPT !.tasks[t].ph = "rejected"]
  ELSE [Request(s, t, "cancelReq", "cancel") EXCEPT
          !.tasks[t].arg = s.objs[s.tasks[t].o].consumerTag]

chainCancelled(s, t) == chainInvalidateQueue(cancelled(s, t), t)

\* every removed binding has been unbound: the step after removeBindingsContaining
chainAfterUnbinds(s, t) ==
  LET kind == s.tasks[t].kind IN
  IF kind = "xdelete" THEN Request(s, t, "delReq", "deleteExchange")
  ELSE IF kind = "qdelete" THEN Request(s, t, "delReq", "deleteQueue")
  ELSE IF kind = "xclose"
       THEN IF ~s.objs[s.tasks[t].o].conn
            THEN [s EXCEPT !.tasks[t].ph = "rejected"]
            ELSE chainClose(invalidateExchange(s, s.tasks[t].o), t)
  ELSE chainStop(s, t)

\* a chain that goes on without removing the bindings of the node
chainRunKeepBindings(s, t) ==
  LET o == s.tasks[t].o IN
  IF s.tasks[s.tasks[t].w].ph # "ok" \/ ~s.objs[o].conn
  THEN [s EXCEPT !.tasks[t].ph = "rejected"]
  ELSE chainAfterUnbinds(s, t)

\* this.initialized has settled: Binding.removeBindingsContaining(this)
chainRun(s, t) ==
  LET o == s.tasks[t].o IN
  IF s.tasks[s.tasks[t].w].ph # "ok" \/ ~s.objs[o].conn
  THEN [s EXCEPT !.tasks[t].ph = "rejected"]
  ELSE LET r == removeBindingsContaining(s, o) IN
       IF r.ws = {} THEN chainAfterUnbinds(r.s, t)
       ELSE [r.s EXCEPT !.tasks[t].ph = "unbinds", !.tasks[t].ws = r.ws]

chainUnbound(s, t) ==
  IF \E x \in s.tasks[t].ws : s.tasks[x].ph # "ok"
  THEN [s EXCEPT !.tasks[t].ph = "rejected"]
  ELSE chainAfterUnbinds(s, t)

\* deleteExchange-ok / deleteQueue-ok
chainDeleted(s, t) ==
  LET s1 == [s EXCEPT !.objs[s.tasks[t].o].deleted = TRUE]      \* gone from the broker
  IN IF s.tasks[t].kind = "xdelete" THEN chainClose(s1, t) ELSE chainStop(s1, t)

\* close-ok: the channel is gone; removeConnection
chainClosed(s, t) ==
  [removeConnection([s EXCEPT !.chans[s.tasks[t].c].open = FALSE], s.tasks[t].o)
     EXCEPT !.tasks[t].ph = "ok"]

\* Exchange.delete: [s, t], t the promise returned
exchangeDelete(s, o) ==
  IF s.objs[o].deleting = 0
  THEN [s |-> [s EXCEPT !.tasks = Append(@, NewTask("xdelete", o, s.objs[o].init)),
                        !.objs[o].deleting = Len(s.tasks) + 1],
        t |-> Len(s.tasks) + 1]
  ELSE [s |-> s, t |-> s.objs[o].deleting]

exchangeClose(s, o) ==
  IF s.objs[o].closing = 0
  THEN [s |-> [s EXCEPT !.tasks = Append(@, NewTask("xclose", o, s.objs[o].init)),
                        !.objs[o].closing = Len(s.tasks) + 1],
        t |-> Len(s.tasks) + 1]
  ELSE [s |-> s, t |-> s.objs[o].closing]

\* Queue.delete: the chain is stored in _closing and _deleting is returned
queueDelete(s, o) ==
  IF s.objs[o].deleting = 0
  THEN [s |-> [s EXCEPT !.tasks = Append(@, NewTask("qdelete", o, s.objs[o].init)),
                        !.objs[o].closing = Len(s.tasks) + 1],
        t |-> s.objs[o].deleting]
  ELSE [s |-> s, t |-> s.objs[o].deleting]

queueClose(s, o) ==
  IF s.objs[o].closing = 0
  THEN [s |-> [s EXCEPT !.tasks = Append(@, NewTask("qclose", o, s.objs[o].init)),
                        !.objs[o].closing = Len(s.tasks) + 1],
        t |-> Len(s.tasks) + 1]
  ELSE [s |-> s, t |-> s.objs[o].closing]

\* ----------------------------------------------------- deleteConfiguration
RECURSIVE DeleteQueues(_, _)
DeleteQueues(r, os) ==
  IF os = <<>> THEN r
  ELSE LET o == Head(os)
           r1 == IF r.s.objs[o].consumerInit # 0 THEN stopConsumer(r.s, o)
                 ELSE [s |-> r.s, t |-> 0]
           r2 == queueDelete(r1.s, o)
       IN DeleteQueues([s |-> r2.s, ws |-> r.ws \cup {r1.t, r2.t}], Tail(os))

RECURSIVE DeleteExchanges(_, _)
DeleteExchanges(r, os) ==
  IF os = <<>> THEN r
  ELSE LET r1 == exchangeDelete(r.s, Head(os))
       IN DeleteExchanges([s |-> r1.s, ws |-> r.ws \cup {r1.t}], Tail(os))

deleteConfiguration(s) ==
  LET r1 == DeleteBindings([s |-> s, ws |-> {}], MapVals(s.bindings))
      r2 == DeleteQueues(r1, MapVals(s.queues))
      r3 == DeleteExchanges(r2, MapVals(s.exchanges))
  IN [r3.s EXCEPT !.proms = Append(@,
        [kind |-> "deleteConfiguration", ws |-> r3.ws \ {0}, seq |-> s.connInit,
         nodes |-> Range(MapVals(s.exchanges)) \cup Range(MapVals(s.queues)),
         cons |-> {o \in Range(MapVals(s.queues)) : s.objs[o].consumer # 0},
         binds |-> Range(MapVals(s.bindings)),
         nobjs |-> Len(s.objs), nbobjs |-> Len(s.bobjs),
         from |-> Len(s.tasks), to |-> Len(r3.s.tasks)])]

\* Promise.all over the tasks ws
Resolved(s, p) == \A t \in s.proms[p].ws : s.tasks[t].ph = "ok"

\* ------------------------------------------------------------- rebuild
\* The latches completeConfiguration collects (an undefined one counts as resolved).
completeConfiguration(s) ==
  ({s.objs[o].init : o \in Range(MapVals(s.exchanges))}
     \cup {s.objs[o].init : o \in Range(MapVals(s.queues))}
     \cup {s.objs[o].consumerInit : o \in Range(MapVals(s.queues))}
     \cup {s.bobjs[b].init : b \in Range(MapVals(s.bindings))}) \ {0}

\* The loops of _rebuildAll. r = [s, ok]: ok is FALSE once a call has thrown, and
\* the rest of _rebuildAll is then not executed.
RECURSIVE ReinitExchanges(_, _)
ReinitExchanges(r, os) ==
  IF os = <<>> \/ ~r.ok THEN r
  ELSE IF ~r.s.objs[Head(os)].conn
       THEN [r EXCEPT !.ok = FALSE]         \* this._connection.initialized: TypeError
       ELSE ReinitExchanges([r EXCEPT !.s = nodeInitialize(r.s, Head(os))], Tail(os))

RECURSIVE ReinitQueues(_, _)
ReinitQueues(r, os) ==
  IF os = <<>> \/ ~r.ok THEN r
  ELSE IF ~r.s.objs[Head(os)].conn
       THEN [r EXCEPT !.ok = FALSE]
       ELSE LET consumer == r.s.objs[Head(os)].consumer
                s1 == nodeInitialize(r.s, Head(os))
                s2 == IF consumer # 0 THEN initializeConsumer(s1, Head(os)) ELSE s1
            IN ReinitQueues([r EXCEPT !.s = s2], Tail(os))

RECURSIVE ReinitBindings(_, _)
ReinitBindings(r, bs) ==
  IF bs = <<>> \/ ~r.ok THEN r
  ELSE ReinitBindings([r EXCEPT !.s = bindingInitialize(r.s, Head(bs))], Tail(bs))

\* a rebuild that re-initializes the bindings before the queues
rebuildAllBindingsFirst(s) ==
  LET s1 == rebuildConnection(s)
      r1 == ReinitExchanges([s |-> s1, ok |-> TRUE], MapVals(s1.exchanges))
      r2 == ReinitBindings(r1, MapVals(s1.bindings))
      r3 == ReinitQueues(r2, MapVals(s1.queues))
  IN IF ~r3.ok THEN r3.s
     ELSE [r3.s EXCEPT !.proms = Append(@,
             [kind |-> "rebuildAll", ws |-> completeConfiguration(r3.s),
              seq |-> s1.connInit,
              nodes |-> Range(MapVals(s.exchanges)) \cup Range(MapVals(s.queues)),
              cons |-> {o \in Range(MapVals(s.queues)) : s.objs[o].consumer # 0},
              binds |-> Range(MapVals(s.bindings)),
              nobjs |-> Len(s.objs), nbobjs |-> Len(s.bobjs),
              from |-> Len(s.tasks), to |-> Len(r3.s.tasks)])]

rebuildAll(s) ==
  LET s1 == rebuildConnection(s)
      r1 == ReinitExchanges([s |-> s1, ok |-> TRUE], MapVals(s1.exchanges))
      r2 == ReinitQueues(r1, MapVals(s1.queues))
      r3 == ReinitBindings(r2, MapVals(s1.bindings))
  IN IF ~r3.ok THEN r3.s
     ELSE [r3.s EXCEPT !.proms = Append(@,
             [kind |-> "rebuildAll", ws |-> completeConfiguration(r3.s),
              seq |-> s1.connInit,
              nodes |-> Range(MapVals(s.exchanges)) \cup Range(MapVals(s.queues)),
              cons |-> {o \in Range(MapVals(s.queues)) : s.objs[o].consumer # 0},
              binds |-> Range(MapVals(s.bindings)),
              nobjs |-> Len(s.objs), nbobjs |-> Len(s.bobjs),
              from |-> Len(s.tasks), to |-> Len(r3.s.tasks)])]

\* ------------------------------------------------------------- Message.sendTo
\* message.sendTo(destination): destination.initialized.then(sendMessage)
sendTo(s, o) ==
  [s EXCEPT !.tasks = Append(@, [NewTask("send", o, s.objs[o].init) EXCEPT
                                   !.rb = InProgress(s)])]

\* channel.publish is synchronous: it throws on a channel that is closed or undefined
CanPublish(s, o) ==
  IF s.objs[o].ch = 0 THEN FALSE
  ELSE s.chans[s.objs[o].ch].open /\ Alive(s, s.chans[s.objs[o].ch].u)

Published(s) == Cardinality({x \in DOMAIN s.tasks : s.tasks[x].rq = "publish"})

\* sendMessage: publish, and on an exception _rebuildAll and retransmit
sendRun(s, t) ==
  LET o == s.tasks[t].o IN
  IF s.tasks[s.tasks[t].w].ph # "ok"
  THEN [s EXCEPT !.tasks[t].ph = "rejected"]
  ELSE IF CanPublish(s, o)
       THEN [s EXCEPT !.tasks[t].ph = "ok", !.tasks[t].c = s.objs[o].ch,
                      !.tasks[t].u = s.chans[s.objs[o].ch].u, !.tasks[t].rq = "publish",
                      !.tasks[t].n = Published(s) + 1]
       ELSE IF ~s.objs[o].conn
            THEN [s EXCEPT !.tasks[t].ph = "rejected"]   \* destination._connection is undefined
            ELSE LET s1 == rebuildAll(s) IN
                 IF Len(s1.proms) = Len(s.proms)
                 THEN [s1 EXCEPT !.tasks[t].ph = "rejected"]     \* _rebuildAll has thrown
                 ELSE [s1 EXCEPT !.tasks[t].ph = "resendWait", !.tasks[t].arg = Len(s1.proms)]

\* the promise of _rebuildAll has settled: .then(() => connection.initialized)
resendRebuilt(s, t) ==
  IF \E x \in s.proms[s.tasks[t].arg].ws : s.tasks[x].ph # "ok"
  THEN [s EXCEPT !.tasks[t].ph = "rejected"]             \* .catch((err) => log(...))
  ELSE [s EXCEPT !.tasks[t].ph = "resendInit", !.tasks[t].w = s.connInit]

\* .then(() => this.sendTo(destination, routingKey))
resend(s, t) ==
  IF s.objs[s.tasks[t].o].init = 0
  THEN [s EXCEPT !.tasks[t].ph = "rejected"]
  ELSE [s EXCEPT !.tasks[t].ph = "wait", !.tasks[t].w = s.objs[s.tasks[t].o].init]

\* ------------------------------------------------------------- Exchange.rpc
\* uuid.v4(): a correlation id no other call has; here the number of the call
CorrelationId(t) == t

\* exchange.rpc(request): this.initialized.then(rpcSend); the promise returned is the task
exchangeRpc(s, o) ==
  [s EXCEPT !.tasks = Append(@, NewTask("rpc", o, s.objs[o].init))]

\* rpcSend: this._channel.once(correlationId, rpcHandler); message.sendTo(this)
rpcSend(s, t) ==
  LET o == s.tasks[t].o IN
  IF s.tasks[s.tasks[t].w].ph # "ok" \/ s.objs[o].ch = 0
  THEN [s EXCEPT !.tasks[t].ph = "stuck"]          \* rpcSend is not run, or throws
  ELSE LET s1 == [s EXCEPT !.chans[s.objs[o].ch].listeners =
                              @ \cup {[ev |-> CorrelationId(t), call |-> t]},
                           !.tasks[t].c = s.objs[o].ch]
       IN IF s.objs[o].init = 0
          THEN [s1 EXCEPT !.tasks[t].ph = "stuck"]  \* destination.initialized is undefined
          ELSE sendTo([s1 EXCEPT !.tasks[t].ph = "listening",
                                 !.tasks[t].ws = {Len(s.tasks) + 1}], o)

\* rpcHandler: resolve(result); a promise that is settled stays as it is
rpcHandler(s, call, ev) ==
  IF s.tasks[call].ph = "listening"
  THEN [s EXCEPT !.tasks[call].ph = "ok", !.tasks[call].arg = ev]
  ELSE s

RECURSIVE CallHandlers(_, _, _)
CallHandlers(s, ls, ev) ==
  IF ls = {} THEN s
  ELSE LET l == CHOOSE x \in ls : \A y \in ls : x.call <= y.call
       IN CallHandlers(rpcHandler(s, l.call, ev), ls \ {l}, ev)

\* a reply consumer that hands the reply to the listener that has waited longest
replyArrivedInOrder(s, c, ev) ==
  LET ls == s.chans[c].listeners IN
  IF ls = {} THEN s
  ELSE LET l == CHOOSE x \in ls : \A y \in ls : x.call <= y.call
       IN rpcHandler([s EXCEPT !.chans[c].listeners = @ \ {l}], l.call, ev)

\* the consumer of createReplyQueue: channel.emit(msg.properties.correlationId, msg);
\* a listener attached with once() is removed when it is called
replyArrived(s, c, ev) ==
  LET ls == {l \in s.chans[c].listeners : l.ev = ev}
  IN CallHandlers([s EXCEPT !.chans[c].listeners = @ \ ls], ls, ev)

\* attachEventListeners: the handlers of one underlying connection
restart(s, u) == rebuildAll([s EXCEPT !.under[u].errL = FALSE])

\* a close handler that restarts whatever _isClosing says
onCloseAlways(s, u) == restart([s EXCEPT !.under[u].closeL = FALSE], u)

onClose(s, u) ==
  LET s1 == [s EXCEPT !.under[u].closeL = FALSE]
  IN IF ~s1.isClosing THEN restart(s1, u) ELSE s1

\* ------------------------------------------------------------- bounds on growth
NeededTasks(s) ==
  Len(s.exchanges) + Len(s.queues) + Len(s.bindings)
    + Cardinality({o \in Range(MapVals(s.queues)) : s.objs[o].consumer # 0})

CanRebuild(s, lim) ==
  /\ IF s.rebuilding THEN TRUE ELSE Len(s.seqs) < lim.seqs
  /\ Len(s.tasks) + NeededTasks(s) <= lim.tasks

RequestPhases ==
  {"chanReq", "assertReq", "bindReq", "unbindReq", "consumeReq", "cancelReq", "delReq",
   "closeReq"}

\* ===================================================== promise continuations
\* A .then() callback runs as a microtask as soon as the promise it hangs on has
\* settled, before the event loop takes the next event.
IsSettled(s, w) == IF w = 0 THEN TRUE ELSE s.tasks[w].ph \in {"ok", "rejected"}

Runnable(s, t) ==
  LET k == s.tasks[t] IN
  IF k.ph = "wait"
  THEN IF k.kind \in {"init", "connClose"} THEN s.seqs[k.w].latch = "fulfilled"
       ELSE IsSettled(s, k.w)
  ELSE IF k.ph = "unbinds" THEN \A x \in k.ws : IsSettled(s, x)
  ELSE IF k.ph = "stopWait" THEN IsSettled(s, k.w)
  ELSE IF k.ph = "resendWait" THEN \A x \in s.proms[k.arg].ws : IsSettled(s, x)
  ELSE IF k.ph = "resendInit" THEN s.seqs[k.w].latch = "fulfilled"
  ELSE FALSE

Continue(s, t) ==
  LET k == s.tasks[t] IN
  IF k.ph = "unbinds" THEN chainUnbound(s, t)
  ELSE IF k.ph = "stopWait" THEN chainCancel(s, t)
  ELSE IF k.ph = "resendWait" THEN resendRebuilt(s, t)
  ELSE IF k.ph = "resendInit" THEN resend(s, t)
  ELSE IF k.kind = "send" THEN sendRun(s, t)
  ELSE IF k.kind = "rpc" THEN rpcSend(s, t)
  ELSE IF k.kind = "prefetch" THEN prefetchRun(s, t)
  ELSE IF k.kind = "init" THEN initRun(s, t)
  ELSE IF k.kind = "connClose" THEN connCloseRun(s, t)
  ELSE IF k.kind = "bind" THEN bindRun(s, t)
  ELSE IF k.kind = "unbind" THEN unbindRun(s, t)
  ELSE IF k.kind = "consume" THEN consumeRun(s, t)
  ELSE IF k.kind = "stop" THEN cancelRun(s, t)
  ELSE chainRun(s, t)

Runnables(s) == {t \in DOMAIN s.tasks : Runnable(s, t)}

First(S) == CHOOSE t \in S : \A x \in S : t <= x

\* run the callbacks that are ready, oldest chain first, until none is left
RECURSIVE Drain(_)
Drain(s) ==
  IF Runnables(s) = {} THEN s ELSE Drain(Continue(s, First(Runnables(s))))

\* ================================================================ Message
\* Values handed to setContent and returned by getContent: a string of characters,
\* a byte buffer, a number, an object {a: v}, or the error a call throws.
\* A character is a string: "eacute" is U+00E9 and "ufffd" is U+FFFD.
Str(cs) == <<"string", cs>>
Buf(bs) == <<"buffer", bs>>
Num(n) == <<"number", n>>
Obj(v) == <<"object", v>>
Thrown(e) == <<"throw", e>>

TypeOf(v) == v[1]

ValueOf(v) == v[2]

\* new Message(): no content, properties = {}
MessageNew == [content |-> <<>>, defined |-> FALSE, contentType |-> ""]

\* Buffer.from(string): the UTF-8 bytes of the characters
Utf8Char(c) ==
  IF c = "eacute" THEN <<195, 169>>
  ELSE IF c = "a" THEN <<97>> ELSE IF c = "\"" THEN <<34>> ELSE IF c = ":" THEN <<58>>
  ELSE IF c = "{" THEN <<123>> ELSE IF c = "}" THEN <<125>>
  ELSE IF c = "1" THEN <<49>> ELSE IF c = "2" THEN <<50>>
  ELSE <<239, 191, 189>>

RECURSIVE BufferFrom(_)
BufferFrom(cs) == IF cs = <<>> THEN <<>> ELSE Utf8Char(Head(cs)) \o BufferFrom(Tail(cs))

\* buffer.toString(): UTF-8 decoding, U+FFFD for a byte that starts no character
Utf8Ascii(b) ==
  IF b = 97 THEN "a" ELSE IF b = 34 THEN "\"" ELSE IF b = 58 THEN ":"
  ELSE IF b = 123 THEN "{" ELSE IF b = 125 THEN "}"
  ELSE IF b = 49 THEN "1" ELSE IF b = 50 THEN "2" ELSE "ufffd"

RECURSIVE BufferToString(_)
BufferToString(bs) ==
  IF bs = <<>> THEN <<>>
  ELSE IF Len(bs) >= 2 /\ bs[1] = 195 /\ bs[2] = 169
       THEN <<"eacute">> \o BufferToString(SubSeq(bs, 3, Len(bs)))
  ELSE IF Len(bs) >= 3 /\ bs[1] = 239 /\ bs[2] = 191 /\ bs[3] = 189
       THEN <<"ufffd">> \o BufferToString(SubSeq(bs, 4, Len(bs)))
  ELSE <<Utf8Ascii(Head(bs))>> \o BufferToString(Tail(bs))

\* JSON.stringify
RECURSIVE JsonStringify(_)
JsonStringify(v) ==
  IF TypeOf(v) = "number" THEN <<IF ValueOf(v) = 1 THEN "1" ELSE "2">>
  ELSE IF TypeOf(v) = "string" THEN <<"\"">> \o ValueOf(v) \o <<"\"">>
  ELSE <<"{", "\"", "a", "\"", ":">> \o JsonStringify(ValueOf(v)) \o <<"}">>

\* JSON.parse
RECURSIVE JsonParse(_)
JsonParse(cs) ==
  IF cs = <<"1">> THEN Num(1)
  ELSE IF cs = <<"2">> THEN Num(2)
  ELSE IF /\ Len(cs) >= 2 /\ cs[1] = "\"" /\ cs[Len(cs)] = "\""
          /\ \A i \in 2..(Len(cs) - 1) : cs[i] # "\""
       THEN Str(SubSeq(cs, 2, Len(cs) - 1))
  ELSE IF Len(cs) >= 7 /\ SubSeq(cs, 1, 5) = <<"{", "\"", "a", "\"", ":">> /\ cs[Len(cs)] = "}"
       THEN LET v == JsonParse(SubSeq(cs, 6, Len(cs) - 1))
            IN IF TypeOf(v) = "throw" THEN v ELSE Obj(v)
  ELSE Thrown("SyntaxError")

setContent(m, content) ==
  IF TypeOf(content) = "string"
  THEN [m EXCEPT !.content = BufferFrom(ValueOf(content)), !.defined = TRUE]
  ELSE IF TypeOf(content) # "buffer"
  THEN [m EXCEPT !.content = BufferFrom(JsonStringify(content)), !.defined = TRUE,
                 !.contentType = "application/json"]
  ELSE [m EXCEPT !.content = ValueOf(content), !.defined = TRUE]

getContent(m) ==
  IF ~m.defined THEN Thrown("TypeError")
  ELSE LET content == BufferToString(m.content)
       IN IF m.contentType = "application/json" THEN JsonParse(content) ELSE Str(content)

\* ============================================================== actions
\* a step of the event loop that is no call of the application
Idle == Runnables(St) = {}

Step(n) == Becomes(Drain([n EXCEPT !.log = NoCall]))

\* --- the broker and the timer, for the connect loop
ConnectOk(q) ==
  /\ Idle
  /\ seqs[q].ph = "connecting"
  /\ Step(connectResolved(St, q))

ConnectFail(q) ==
  /\ Idle
  /\ seqs[q].ph = "connecting"
  /\ seqs[q].retry < MaxRetry
  /\ Step(connectRejected(St, q))

TimerFire(q) ==
  /\ Idle
  /\ seqs[q].ph = "sleeping"
  /\ Step(timerFired(St, q))

\* --- the underlying connection emits 'error'
EvError(u, lim) ==
  /\ Idle
  /\ under[u].st \in {"open", "closing"}
  /\ CanRebuild(St, lim)
  /\ LET s0 == [St EXCEPT !.under[u].st = "errored", !.log = NoCall]
     IN Becomes(Drain(IF under[u].errL THEN restart(s0, u) ELSE s0))

\* --- the underlying connection emits 'close'
EvClose(u, lim) ==
  /\ Idle
  /\ under[u].st \in {"open", "errored", "closing"}
  /\ CanRebuild(St, lim)
  /\ LET s0 == [St EXCEPT !.under[u].st = "closed", !.log = NoCall]
     IN Becomes(Drain(closeSettled(IF under[u].closeL THEN onClose(s0, u) ELSE s0, u)))

\* --- connection.close() called by the application
Close(lim) ==
  /\ Len(tasks) + 1 <= lim.tasks
  /\ LET r == connectionClose(St) IN
     Becomes([r.s EXCEPT !.log = [op |-> "close", name |-> <<>>, ret |-> r.t,
                                  existed |-> isClosing, pre |-> connInit, made |-> TRUE]])

\* --- calls of the application
\* lim = [seqs, tasks]: how far the specification at hand lets the state grow
Room(k, lim) == Len(tasks) + k <= lim.tasks

DeclareExchange(name, type, opts, lim) ==
  /\ IF MapHas(exchanges, name) THEN TRUE ELSE Len(objs) < MaxObjs /\ Room(1, lim)
  /\ Becomes(declareExchange(St, name, type, opts))

DeclareQueue(name, opts, lim) ==
  /\ IF MapHas(queues, name) THEN TRUE ELSE Len(objs) < MaxObjs /\ Room(1, lim)
  /\ Becomes(declareQueue(St, name, opts))

\* destination.bind(source, pattern), on registered nodes
Bind(dst, src, pattern, lim) ==
  /\ dst \in Range(MapVals(exchanges)) \cup Range(MapVals(queues))
  /\ src \in Range(MapVals(exchanges))
  /\ dst # src
  /\ objs[dst].conn
  /\ Len(bobjs) < MaxBinds /\ Room(1, lim)
  /\ Becomes([BindingNew(St, dst, src, pattern) EXCEPT
                !.log = [op |-> "bind", name |-> objs[dst].name, ret |-> Len(bobjs) + 1,
                         existed |-> FALSE, pre |-> 0, made |-> TRUE]])

\* connection.declareTopology(topology): the promise of Promise.all, or the error thrown
DeclareTopology(topology, lim) ==
  LET r == declareTopology(St, topology) IN
  /\ Len(r.s.objs) <= MaxObjs /\ Len(r.s.bobjs) <= MaxBinds /\ Len(r.s.tasks) <= lim.tasks
  /\ r.err = "" => Len(proms) < MaxDeclCalls
  /\ Becomes(IF r.err # ""
             THEN [r.s EXCEPT !.log = [op |-> "declareTopology", name |-> <<>>, ret |-> 0,
                                       existed |-> FALSE, pre |-> 0, made |-> FALSE,
                                       arg |-> topology, err |-> r.err]]
             ELSE [r.s EXCEPT
                     !.proms = Append(@,
                       [kind |-> "declareTopology", ws |-> r.ws \ {0}, seq |-> connInit,
                        nodes |-> {}, cons |-> {}, binds |-> {},
                        nobjs |-> Len(objs), nbobjs |-> Len(bobjs),
                        from |-> Len(tasks), to |-> Len(r.s.tasks)]),
                     !.log = [op |-> "declareTopology", name |-> <<>>, ret |-> Len(proms) + 1,
                              existed |-> FALSE, pre |-> 0, made |-> TRUE,
                              arg |-> topology, err |-> ""]])

\* Binding.id(destination, source, pattern): the call and the call before it
BindingIdCall(b) ==
  LET a == IF log.op = "Binding.id" THEN log.arg[2] ELSE b IN
  Becomes([St EXCEPT !.log =
    [op |-> "Binding.id", name |-> <<>>, ret |-> 0, existed |-> FALSE, pre |-> 0,
     made |-> FALSE, arg |-> <<a, b>>,
     ids |-> <<BindingId(a.dst, a.kind, a.src, a.pattern),
               BindingId(b.dst, b.kind, b.src, b.pattern)>>]])

\* message.setContent(content)
SetContent(content) ==
  Becomes([St EXCEPT !.message = setContent(message, content),
                     !.log = [op |-> "setContent", name |-> <<>>, ret |-> 0,
                              existed |-> FALSE, pre |-> 0, made |-> FALSE,
                              set |-> content]])

\* message.getContent(), after a setContent
GetContent ==
  /\ log.op \in {"setContent", "getContent"}
  /\ Becomes([St EXCEPT !.log = [op |-> "getContent", name |-> <<>>, ret |-> 0,
                                 existed |-> FALSE, pre |-> 0, made |-> FALSE,
                                 set |-> log.set, got |-> getContent(message)]])

\* queue.prefetch(count)
Prefetch(o, count, lim) ==
  /\ objs[o].kind = "Q" /\ objs[o].init # 0
  /\ Room(1, lim)
  /\ Becomes([queuePrefetch(St, o, count) EXCEPT
                !.log = [op |-> "prefetch", name |-> objs[o].name, ret |-> Len(tasks) + 1,
                         existed |-> FALSE, pre |-> 0, made |-> TRUE]])

ActivateConsumer(o, in, lim) ==
  /\ objs[o].kind = "Q" /\ objs[o].init # 0
  /\ IF objs[o].consumerInit # 0 THEN TRUE ELSE Room(1, lim)
  /\ Becomes([activateConsumer(St, o, in.cb, in.opts) EXCEPT
                !.log = [op |-> "activateConsumer", name |-> objs[o].name,
                         ret |-> IF objs[o].consumerInit # 0 THEN objs[o].consumerInit
                                 ELSE Len(tasks) + 1,
                         existed |-> objs[o].consumerInit # 0,
                         pre |-> objs[o].consumerInit, made |-> objs[o].consumerInit = 0]])

StopConsumer(o, lim) ==
  /\ objs[o].kind = "Q"
  /\ Room(1, lim)
  /\ LET r == stopConsumer(St, o) IN
     Becomes([r.s EXCEPT !.log = [op |-> "stopConsumer", name |-> objs[o].name, ret |-> r.t,
                                  existed |-> objs[o].consumerInit # 0,
                                  pre |-> objs[o].consumerInit, made |-> r.t # 0]])

NodeCall(o, kind, op, r, lim) ==
  /\ objs[o].kind = kind /\ objs[o].init # 0
  /\ Room(1, lim)
  /\ Becomes([r.s EXCEPT !.log = [op |-> op, name |-> objs[o].name, ret |-> r.t,
                                  existed |-> objs[o].deleting # 0 \/ objs[o].closing # 0,
                                  pre |-> IF op \in {"Exchange.delete", "Queue.delete"}
                                          THEN objs[o].deleting ELSE objs[o].closing,
                                  made |-> Len(r.s.tasks) > Len(tasks)]])

ExchangeDelete(o, lim) == NodeCall(o, "E", "Exchange.delete", exchangeDelete(St, o), lim)

ExchangeClose(o, lim) == NodeCall(o, "E", "Exchange.close", exchangeClose(St, o), lim)

QueueDelete(o, lim) == NodeCall(o, "Q", "Queue.delete", queueDelete(St, o), lim)

QueueClose(o, lim) == NodeCall(o, "Q", "Queue.close", queueClose(St, o), lim)

DeleteConfiguration(lim) ==
  /\ Cardinality({p \in DOMAIN proms : proms[p].kind = "deleteConfiguration"}) < MaxDeleteCalls
  /\ Room(NeededTasks(St) + Len(bindings), lim)
  /\ Becomes([deleteConfiguration(St) EXCEPT
                !.log = [op |-> "deleteConfiguration", name |-> <<>>, ret |-> Len(proms) + 1,
                         existed |-> FALSE, pre |-> 0, made |-> TRUE]])

\* message.sendTo(node) / exchange.send(message)
Send(o, lim) ==
  /\ objs[o].init # 0
  /\ Room(1, lim)
  /\ Becomes([sendTo(St, o) EXCEPT
                !.log = [op |-> "sendTo", name |-> objs[o].name, ret |-> Len(tasks) + 1,
                         existed |-> FALSE, pre |-> objs[o].init, made |-> TRUE]])

\* exchange.rpc(request)
Rpc(o, lim) ==
  /\ objs[o].kind = "E" /\ objs[o].init # 0
  /\ Room(2, lim)
  /\ Becomes([exchangeRpc(St, o) EXCEPT
                !.log = [op |-> "rpc", name |-> objs[o].name, ret |-> Len(tasks) + 1,
                         existed |-> FALSE, pre |-> objs[o].init, made |-> TRUE]])

\* --- the calling code returns to the event loop: the callbacks that are ready run
Microtasks ==
  /\ ~Idle
  /\ Step(St)

\* --- answers of the broker to a request in flight
Pending(t, ph) == Idle /\ tasks[t].ph = ph

Reachable(t) ==
  /\ Alive(St, tasks[t].u)
  /\ IF tasks[t].c = 0 THEN TRUE ELSE chans[tasks[t].c].open

ChannelOk(t) ==
  /\ Pending(t, "chanReq") /\ Reachable(t)
  /\ Step(channelCreated(St, t))

AssertOk(t) ==
  /\ Pending(t, "assertReq") /\ Reachable(t)
  /\ Step(asserted(St, t))

\* the broker refuses the declaration and closes the channel
AssertFail(t) ==
  /\ Pending(t, "assertReq") /\ Reachable(t)
  /\ fails < MaxFails
  /\ Step(assertFailed([St EXCEPT !.fails = @ + 1, !.chans[tasks[t].c].open = FALSE], t))

BindOk(t) ==
  /\ Pending(t, "bindReq") /\ Reachable(t)
  /\ Step([St EXCEPT !.tasks[t].ph = "ok"])

BindFail(t) ==
  /\ Pending(t, "bindReq") /\ Reachable(t)
  /\ fails < MaxFails
  /\ Step(bindFailed([St EXCEPT !.fails = @ + 1, !.chans[tasks[t].c].open = FALSE], t))

UnbindOk(t) ==
  /\ Pending(t, "unbindReq") /\ Reachable(t)
  /\ Step(unbound(St, t))

\* --- the broker delivers a message on a subscription it serves
Outcomes == {"value", "resolve", "reject", "throw"}

Deliver(x, replyTo, outcome) ==
  /\ Idle
  /\ x \in subs /\ chans[x.c].open /\ Alive(St, chans[x.c].u)
  /\ LET r == wrapConsumer(St, x.q, replyTo, outcome) IN
     Becomes([St EXCEPT !.log =
       [op |-> "deliver", name |-> objs[x.q].name, ret |-> x.tag, existed |-> FALSE,
        pre |-> 0, made |-> FALSE, outcome |-> outcome, replyTo |-> replyTo,
        after |-> IF log.op = "deliver" THEN log.called /\ log.outcome = "reject"
                  ELSE FALSE,
        called |-> r.called, acks |-> r.acks, nacks |-> r.nacks,
        replied |-> r.replied, err |-> r.err]])

ConsumeOk(t) ==
  /\ Pending(t, "consumeReq") /\ Reachable(t)
  /\ Step(consumed(St, t))

CancelOk(t) ==
  /\ Pending(t, "cancelReq") /\ Reachable(t)
  /\ Step(IF tasks[t].kind = "stop"
             THEN [cancelled(St, t) EXCEPT !.tasks[t].ph = "ok"]
             ELSE chainCancelled(St, t))

DeleteOk(t) ==
  /\ Pending(t, "delReq") /\ Reachable(t)
  /\ Step(chainDeleted(St, t))

CloseOk(t) ==
  /\ Pending(t, "closeReq") /\ Reachable(t)
  /\ Step(chainClosed(St, t))

\* the server answers the request of call r: the reply comes in on the channel
\* that has published the request
Reply(r) ==
  /\ Idle
  /\ tasks[r].kind = "rpc" /\ tasks[r].ws # {}
  /\ LET m == CHOOSE x \in tasks[r].ws : TRUE IN
     /\ tasks[m].rq = "publish"
     /\ Reachable(m) /\ chans[tasks[m].c].reply
     /\ Step(replyArrived(St, tasks[m].c, CorrelationId(r)))

\* the connection or the channel of a request in flight is gone: the request is rejected
requestLost(s, t) ==
  IF s.tasks[t].ph = "assertReq" THEN assertFailed(s, t)
  ELSE IF s.tasks[t].ph = "bindReq" THEN bindFailed(s, t)
  ELSE [s EXCEPT !.tasks[t].ph = "rejected"]

RequestLost(t) ==
  /\ Idle
  /\ tasks[t].ph \in RequestPhases
  /\ ~Reachable(t)
  /\ Step(requestLost(St, t))

\* ============================================================ specifications
Blank(r) ==
  [retries |-> r, under |-> <<>>, cur |-> 0, rebuilding |-> FALSE, isClosing |-> FALSE,
   seqs |-> <<>>, connInit |-> 0, objs |-> <<>>, exchanges |-> <<>>, queues |-> <<>>,
   bindings |-> <<>>, bobjs |-> <<>>, chans |-> <<>>, subs |-> {}, tasks |-> <<>>,
   proms |-> <<>>,
   fails |-> 0, message |-> MessageNew, log |-> NoCall]

\* new Connection(url, socketOptions, reconnectStrategy)
Constructor(r) ==
  [rebuildConnection(Blank(r)) EXCEPT
     !.log = NoCall]

InitWith(R) ==
  \E r \in R :
    LET n == Constructor(r) IN
    /\ retries = n.retries /\ under = n.under /\ cur = n.cur
    /\ rebuilding = n.rebuilding /\ isClosing = n.isClosing /\ seqs = n.seqs
    /\ connInit = n.connInit /\ objs = n.objs /\ exchanges = n.exchanges
    /\ queues = n.queues /\ bindings = n.bindings /\ bobjs = n.bobjs
    /\ chans = n.chans /\ subs = n.subs /\ tasks = n.tasks /\ proms = n.proms /\ fails = n.fails
    /\ message = n.message
    /\ log = n.log

\* The connection supervisor alone: no entity is declared.
InitConn == InitWith(RetriesOpts)

ConnLim == [seqs |-> MaxSeqs, tasks |-> 0]

NextConn ==
  \/ \E q \in DOMAIN seqs : ConnectOk(q)
  \/ \E q \in DOMAIN seqs : ConnectFail(q)
  \/ \E q \in DOMAIN seqs : TimerFire(q)
  \/ \E u \in DOMAIN under : EvError(u, ConnLim)
  \/ \E u \in DOMAIN under : EvClose(u, ConnLim)

SpecConn == InitConn /\ [][NextConn]_vars

\* Declarations, their assertion, close() and delete() of a node, and rebuilds,
\* on a broker that accepts every connection.
Init == InitWith({0})

TopoLim == [seqs |-> MaxTopoSeqs, tasks |-> MaxTopoTasks]

Next ==
  \/ \E n \in ExNames, d \in ExDecls : DeclareExchange(n, d.type, d.opts, TopoLim)
  \/ \E n \in QNames : DeclareQueue(n, DefaultOpts, TopoLim)
  \/ \E o \in DOMAIN objs : ExchangeClose(o, TopoLim)
  \/ \E o \in DOMAIN objs : QueueDelete(o, TopoLim)
  \/ \E q \in DOMAIN seqs : ConnectOk(q)
  \/ Microtasks
  \/ \E t \in DOMAIN tasks : ChannelOk(t)
  \/ \E t \in DOMAIN tasks : AssertOk(t)
  \/ \E t \in DOMAIN tasks : AssertFail(t)
  \/ \E t \in DOMAIN tasks : DeleteOk(t)
  \/ \E t \in DOMAIN tasks : CloseOk(t)
  \/ \E t \in DOMAIN tasks : RequestLost(t)
  \/ \E u \in DOMAIN under : EvError(u, TopoLim)
  \/ \E u \in DOMAIN under : EvClose(u, TopoLim)

Spec == Init /\ [][Next]_vars

\* deleteConfiguration on a topology in any stage of its construction; the
\* connection stays up and the broker grants every request.
DelLim == [seqs |-> 0, tasks |-> MaxDelTasks]

\* the application builds its topology, then deletes it
Building == proms = <<>>

NextDel ==
  \/ \E n \in ExNames : Building /\ DeclareExchange(n, "direct", DefaultOpts, DelLim)
  \/ \E n \in QNames : Building /\ DeclareQueue(n, DefaultOpts, DelLim)
  \/ \E d \in DOMAIN objs, x \in DOMAIN objs, pt \in Patterns :
       Building /\ Bind(d, x, pt, DelLim)
  \/ \E o \in DOMAIN objs : Building /\ ActivateConsumer(o, OneConsumer, DelLim)
  \/ DeleteConfiguration(DelLim)
  \/ \E q \in DOMAIN seqs : ConnectOk(q)
  \/ Microtasks
  \/ \E t \in DOMAIN tasks : ChannelOk(t)
  \/ \E t \in DOMAIN tasks : AssertOk(t)
  \/ \E t \in DOMAIN tasks : BindOk(t)
  \/ \E t \in DOMAIN tasks : UnbindOk(t)
  \/ \E t \in DOMAIN tasks : ConsumeOk(t)
  \/ \E t \in DOMAIN tasks : CancelOk(t)
  \/ \E t \in DOMAIN tasks : DeleteOk(t)
  \/ \E t \in DOMAIN tasks : CloseOk(t)
  \/ \E t \in DOMAIN tasks : RequestLost(t)

SpecDel == Init /\ [][NextDel]_vars

\* Connection losses under a topology with a consumer: every 'error' is followed
\* by a 'close', at any time; the broker grants every request.
RebuildLim == [seqs |-> MaxTopoSeqs, tasks |-> MaxRebuildTasks]

NextRebuild ==
  \/ \E n \in ExNames : DeclareExchange(n, "direct", DefaultOpts, RebuildLim)
  \/ \E n \in QNames : DeclareQueue(n, DefaultOpts, RebuildLim)
  \/ \E o \in DOMAIN objs : ActivateConsumer(o, OneConsumer, RebuildLim)
  \/ \E q \in DOMAIN seqs : ConnectOk(q)
  \/ Microtasks
  \/ \E t \in DOMAIN tasks : ChannelOk(t)
  \/ \E t \in DOMAIN tasks : AssertOk(t)
  \/ \E t \in DOMAIN tasks : ConsumeOk(t)
  \/ \E t \in DOMAIN tasks : RequestLost(t)
  \/ \E u \in DOMAIN under : EvError(u, RebuildLim)
  \/ \E u \in DOMAIN under : EvClose(u, RebuildLim)

SpecRebuild == Init /\ [][NextRebuild]_vars

\* One connection loss under an exchange and a queue, where the exchange may have
\* been deleted. The broker accepts every connection and grants every request,
\* and what is pending is eventually answered.
LiveLim == [seqs |-> MaxTopoSeqs, tasks |-> MaxLiveTasks]

LiveProgress ==
  \/ \E q \in DOMAIN seqs : ConnectOk(q)
  \/ Microtasks
  \/ \E t \in DOMAIN tasks : ChannelOk(t)
  \/ \E t \in DOMAIN tasks : AssertOk(t)
  \/ \E t \in DOMAIN tasks : DeleteOk(t)
  \/ \E t \in DOMAIN tasks : CloseOk(t)
  \/ \E t \in DOMAIN tasks : RequestLost(t)

NextLive ==
  \/ \E n \in ExNames : DeclareExchange(n, "direct", DefaultOpts, LiveLim)
  \/ \E n \in QNames : DeclareQueue(n, DefaultOpts, LiveLim)
  \/ \E o \in DOMAIN objs : ExchangeDelete(o, LiveLim)
  \/ \E u \in DOMAIN under : EvError(u, LiveLim)
  \/ \E u \in DOMAIN under : EvClose(u, LiveLim)
  \/ LiveProgress

SpecLive == Init /\ [][NextLive]_vars /\ WF_vars(LiveProgress)

\* close() of the connection, at any time, under an exchange; the underlying
\* connection may fail before or after; the broker grants every request.
CloseLim == [seqs |-> MaxTopoSeqs, tasks |-> MaxCloseTasks]

NextClose ==
  \/ \E n \in ExNames : DeclareExchange(n, "direct", DefaultOpts, CloseLim)
  \/ Close(CloseLim)
  \/ \E o \in DOMAIN objs : Send(o, CloseLim)
  \/ \E q \in DOMAIN seqs : Len(under) < MaxCloseConns /\ ConnectOk(q)
  \/ Microtasks
  \/ \E t \in DOMAIN tasks : ChannelOk(t)
  \/ \E t \in DOMAIN tasks : AssertOk(t)
  \/ \E t \in DOMAIN tasks : RequestLost(t)
  \/ \E u \in DOMAIN under : EvError(u, CloseLim)
  \/ \E u \in DOMAIN under : EvClose(u, CloseLim)

SpecClose == Init /\ [][NextClose]_vars

\* A queue with a consumer that is activated and stopped, with overlapping calls;
\* the connection stays up and the broker grants every request.
StopLim == [seqs |-> 0, tasks |-> MaxStopTasks]

NextStop ==
  \/ \E n \in QNames : DeclareQueue(n, DefaultOpts, StopLim)
  \/ \E o \in DOMAIN objs : ActivateConsumer(o, OneConsumer, StopLim)
  \/ \E o \in DOMAIN objs : StopConsumer(o, StopLim)
  \/ \E q \in DOMAIN seqs : ConnectOk(q)
  \/ Microtasks
  \/ \E t \in DOMAIN tasks : ChannelOk(t)
  \/ \E t \in DOMAIN tasks : AssertOk(t)
  \/ \E t \in DOMAIN tasks : ConsumeOk(t)
  \/ \E t \in DOMAIN tasks : CancelOk(t)

SpecStop == Init /\ [][NextStop]_vars

\* An exchange, a queue and a binding between them, where the broker may refuse
\* a declaration or the binding and the exchange may be closed.
BindLim == [seqs |-> 0, tasks |-> MaxBindTasks]

NextBind ==
  \/ \E n \in ExNames : DeclareExchange(n, "direct", DefaultOpts, BindLim)
  \/ \E n \in QNames : DeclareQueue(n, DefaultOpts, BindLim)
  \/ \E d \in DOMAIN objs, x \in DOMAIN objs, pt \in Patterns : Bind(d, x, pt, BindLim)
  \/ \E o \in DOMAIN objs : ExchangeClose(o, BindLim)
  \/ \E o \in DOMAIN objs : Send(o, BindLim)
  \/ \E q \in DOMAIN seqs : ConnectOk(q)
  \/ Microtasks
  \/ \E t \in DOMAIN tasks : ChannelOk(t)
  \/ \E t \in DOMAIN tasks : AssertOk(t)
  \/ \E t \in DOMAIN tasks : AssertFail(t)
  \/ \E t \in DOMAIN tasks : BindOk(t)
  \/ \E t \in DOMAIN tasks : BindFail(t)
  \/ \E t \in DOMAIN tasks : UnbindOk(t)
  \/ \E t \in DOMAIN tasks : CloseOk(t)
  \/ \E t \in DOMAIN tasks : RequestLost(t)

SpecBind == Init /\ [][NextBind]_vars

\* Overlapping rpc calls on an exchange; the server answers them in any order,
\* and may answer a request more than once.
RpcLim == [seqs |-> 0, tasks |-> MaxRpcTasks]

NextRpc ==
  \/ \E n \in ExNames : DeclareExchange(n, "direct", DefaultOpts, RpcLim)
  \/ \E o \in DOMAIN objs : Rpc(o, RpcLim)
  \/ \E q \in DOMAIN seqs : ConnectOk(q)
  \/ Microtasks
  \/ \E t \in DOMAIN tasks : ChannelOk(t)
  \/ \E t \in DOMAIN tasks : AssertOk(t)
  \/ \E r \in DOMAIN tasks : Reply(r)

SpecRpc == Init /\ [][NextRpc]_vars

\* Publishes and a consumer on a queue, requested at any time, under two connection
\* losses; the broker accepts every connection and grants every request.
ReplayLim == [seqs |-> MaxReplaySeqs, tasks |-> MaxReplayTasks]

NextReplay ==
  \/ \E n \in QNames : DeclareQueue(n, DefaultOpts, ReplayLim)
  \/ \E o \in DOMAIN objs : ActivateConsumer(o, OneConsumer, ReplayLim)
  \/ \E o \in DOMAIN objs : Send(o, ReplayLim)
  \/ \E q \in DOMAIN seqs : Len(under) < MaxReplayConns /\ ConnectOk(q)
  \/ Microtasks
  \/ \E t \in DOMAIN tasks : ChannelOk(t)
  \/ \E t \in DOMAIN tasks : AssertOk(t)
  \/ \E t \in DOMAIN tasks : ConsumeOk(t)
  \/ \E t \in DOMAIN tasks : RequestLost(t)
  \/ \E u \in DOMAIN under : EvError(u, ReplayLim)
  \/ \E u \in DOMAIN under : EvClose(u, ReplayLim)

SpecReplay == Init /\ [][NextReplay]_vars

\* Topologies declared in one call on a connection whose exchange may have been
\* deleted before: each binding names an exchange, a queue, both or neither.
TopologyBindings ==
  {b \in [source : ExNames, exchange : ExNames \cup {Undefined},
          queue : QNames \cup {Undefined}, pattern : Patterns] :
     b.exchange = Undefined \/ b.queue = Undefined}

Topologies ==
  {[exchanges |-> <<x>>, queues |-> <<q>>, bindings |-> bs] :
      x \in ExNames, q \in QNames,
      bs \in {<<>>} \cup {<<b>> : b \in {c \in TopologyBindings :
                                           c.exchange = Undefined /\ c.queue = Undefined}}}
    \cup {[exchanges |-> <<>>, queues |-> <<>>, bindings |-> bs] :
            bs \in {<<b>> : b \in TopologyBindings}
                     \cup {<<b1, b2>> : b1 \in TopologyBindings, b2 \in TopologyBindings}}

DeclLim == [seqs |-> 0, tasks |-> MaxDeclTasks]

NextDecl ==
  \/ \E topology \in Topologies : DeclareTopology(topology, DeclLim)
  \/ \E o \in DOMAIN objs : ExchangeDelete(o, DeclLim)
  \/ \E q \in DOMAIN seqs : ConnectOk(q)
  \/ Microtasks
  \/ \E t \in DOMAIN tasks : ChannelOk(t)
  \/ \E t \in DOMAIN tasks : AssertOk(t)
  \/ \E t \in DOMAIN tasks : BindOk(t)
  \/ \E t \in DOMAIN tasks : UnbindOk(t)
  \/ \E t \in DOMAIN tasks : DeleteOk(t)
  \/ \E t \in DOMAIN tasks : CloseOk(t)

SpecDecl == Init /\ [][NextDecl]_vars

\* An exchange, a queue with a consumer and a binding between them, and the loss
\* of the underlying connection.
OrderLim == [seqs |-> MaxTopoSeqs, tasks |-> MaxOrderTasks]

NextOrder ==
  \/ \E n \in ExNames : DeclareExchange(n, "direct", DefaultOpts, OrderLim)
  \/ \E n \in QNames : DeclareQueue(n, DefaultOpts, OrderLim)
  \/ \E o \in DOMAIN objs : ActivateConsumer(o, OneConsumer, OrderLim)
  \/ \E d \in DOMAIN objs, x \in DOMAIN objs, pt \in Patterns : Bind(d, x, pt, OrderLim)
  \/ \E q \in DOMAIN seqs : ConnectOk(q)
  \/ Microtasks
  \/ \E t \in DOMAIN tasks : ChannelOk(t)
  \/ \E t \in DOMAIN tasks : AssertOk(t)
  \/ \E t \in DOMAIN tasks : ConsumeOk(t)
  \/ \E t \in DOMAIN tasks : BindOk(t)
  \/ \E u \in DOMAIN under : EvError(u, OrderLim)

SpecOrder == Init /\ [][NextOrder]_vars

\* Binding ids of nodes whose names, like the patterns, are strings of at most
\* MaxIdLen characters over an alphabet with the two brackets.
IdAlphabet == {"[", "]", "a"}

IdStrings == UNION {[1..n -> IdAlphabet] : n \in 0..MaxIdLen}

IdInputs == [src : IdStrings, dst : IdStrings, kind : {"E", "Q"}, pattern : IdStrings]

NextId == \E b \in IdInputs : BindingIdCall(b)

SpecId == Init /\ [][NextId]_vars

\* One Message whose content is set and read: strings and buffers of at most
\* MaxContentLen characters or bytes, numbers, and objects with one property.
ContentStrings == UNION {[1..n -> {"a", "eacute", "1"}] : n \in 0..MaxContentLen}

ContentBuffers == UNION {[1..n -> {97, 195, 169}] : n \in 0..MaxContentLen}

ContentNumbers == {1, 2}

NextMsg ==
  \/ \E cs \in ContentStrings : SetContent(Str(cs))
  \/ \E bs \in ContentBuffers : SetContent(Buf(bs))
  \/ \E n \in ContentNumbers : SetContent(Obj(Num(n)))
  \/ \E cs \in ContentStrings : SetContent(Obj(Str(cs)))
  \/ GetContent

SpecMsg == Init /\ [][NextMsg]_vars

\* An exchange, a queue and a binding between them, where the underlying
\* connection emits 'error' and then 'close'.
RebindLim == [seqs |-> MaxSeqs, tasks |-> MaxRebindTasks]

NextRebind ==
  \/ \E n \in ExNames : DeclareExchange(n, "direct", DefaultOpts, RebindLim)
  \/ \E n \in QNames : DeclareQueue(n, DefaultOpts, RebindLim)
  \/ \E d \in DOMAIN objs, x \in DOMAIN objs, pt \in Patterns : Bind(d, x, pt, RebindLim)
  \/ \E q \in DOMAIN seqs : Len(under) < MaxRebindConns /\ ConnectOk(q)
  \/ Microtasks
  \/ \E t \in DOMAIN tasks : ChannelOk(t)
  \/ \E t \in DOMAIN tasks : AssertOk(t)
  \/ \E t \in DOMAIN tasks : BindOk(t)
  \/ \E u \in DOMAIN under : EvError(u, RebindLim)
  \/ \E u \in DOMAIN under : EvClose(u, RebindLim)

SpecRebind == Init /\ [][NextRebind]_vars

\* A queue whose prefetch count is set, and the loss of the underlying connection.
PrefetchCounts == {1, 2}

PrefetchLim == [seqs |-> MaxSeqs, tasks |-> MaxPrefetchTasks]

NextPrefetch ==
  \/ \E n \in QNames : DeclareQueue(n, DefaultOpts, PrefetchLim)
  \/ \E o \in DOMAIN objs, count \in PrefetchCounts : Prefetch(o, count, PrefetchLim)
  \/ \E q \in DOMAIN seqs : Len(under) < MaxPrefetchConns /\ ConnectOk(q)
  \/ Microtasks
  \/ \E t \in DOMAIN tasks : ChannelOk(t)
  \/ \E t \in DOMAIN tasks : AssertOk(t)
  \/ \E t \in DOMAIN tasks : RequestLost(t)
  \/ \E u \in DOMAIN under : EvError(u, PrefetchLim)
  \/ \E u \in DOMAIN under : EvClose(u, PrefetchLim)

SpecPrefetch == Init /\ [][NextPrefetch]_vars

\* A queue with a consumer that may be stopped and whose callback may fail, and
\* deliveries on it.
ConsumeLim == [seqs |-> 0, tasks |-> MaxConsumeTasks]

NextConsume ==
  \/ \E n \in QNames : DeclareQueue(n, DefaultOpts, ConsumeLim)
  \/ \E o \in DOMAIN objs : ActivateConsumer(o, OneConsumer, ConsumeLim)
  \/ \E o \in DOMAIN objs : StopConsumer(o, ConsumeLim)
  \/ \E q \in DOMAIN seqs : ConnectOk(q)
  \/ Microtasks
  \/ \E t \in DOMAIN tasks : ChannelOk(t)
  \/ \E t \in DOMAIN tasks : AssertOk(t)
  \/ \E t \in DOMAIN tasks : ConsumeOk(t)
  \/ \E t \in DOMAIN tasks : CancelOk(t)
  \/ \E x \in subs, replyTo \in BOOLEAN, outcome \in Outcomes : Deliver(x, replyTo, outcome)

SpecConsume == Init /\ [][NextConsume]_vars

\* A consumer that is activated and then stopped, under connection losses; the
\* application calls stopConsumer once and does not activate a consumer again.
ResubLim == [seqs |-> MaxTopoSeqs, tasks |-> MaxResubTasks]

StopCalls == {t \in DOMAIN tasks : tasks[t].kind = "stop"}

NextResub ==
  \/ \E n \in QNames : DeclareQueue(n, DefaultOpts, ResubLim)
  \/ \E o \in DOMAIN objs : StopCalls = {} /\ ActivateConsumer(o, OneConsumer, ResubLim)
  \/ \E o \in DOMAIN objs : StopCalls = {} /\ StopConsumer(o, ResubLim)
  \/ \E q \in DOMAIN seqs : Len(under) < MaxResubConns /\ ConnectOk(q)
  \/ Microtasks
  \/ \E t \in DOMAIN tasks : ChannelOk(t)
  \/ \E t \in DOMAIN tasks : AssertOk(t)
  \/ \E t \in DOMAIN tasks : ConsumeOk(t)
  \/ \E t \in DOMAIN tasks : CancelOk(t)
  \/ \E t \in DOMAIN tasks : RequestLost(t)
  \/ \E u \in DOMAIN under : EvError(u, ResubLim)
  \/ \E u \in DOMAIN under : EvClose(u, ResubLim)
  \/ \E x \in subs : Deliver(x, FALSE, "value")

SpecResub == Init /\ [][NextResub]_vars

\* One rpc() call on an exchange that is bound to another exchange, where the
\* broker may refuse the binding and so close the channel of the destination.
RetransmitLim == [seqs |-> MaxTopoSeqs, tasks |-> MaxRetransmitTasks]

RpcNames == {<<"x">>, <<"y">>}

RpcCalls == {t \in DOMAIN tasks : tasks[t].kind = "rpc"}

NextRetransmit ==
  \/ \E n \in RpcNames : DeclareExchange(n, "direct", DefaultOpts, RetransmitLim)
  \/ \E d \in DOMAIN objs, x \in DOMAIN objs, pt \in Patterns : Bind(d, x, pt, RetransmitLim)
  \/ \E o \in DOMAIN objs : RpcCalls = {} /\ Rpc(o, RetransmitLim)
  \/ \E q \in DOMAIN seqs : Len(under) < MaxRetransmitConns /\ ConnectOk(q)
  \/ Microtasks
  \/ \E t \in DOMAIN tasks : ChannelOk(t)
  \/ \E t \in DOMAIN tasks : AssertOk(t)
  \/ \E t \in DOMAIN tasks : BindOk(t)
  \/ \E t \in DOMAIN tasks : BindFail(t)
  \/ \E r \in DOMAIN tasks : Reply(r)

SpecRetransmit == Init /\ [][NextRetransmit]_vars

\* An exchange and a queue declared with options of the application's choice,
\* and the loss of the underlying connection.
AssertLim == [seqs |-> MaxTopoSeqs, tasks |-> MaxAssertTasks]

DeclareOpts == [noCreate : BOOLEAN, prefetch : {0}, durable : BOOLEAN]

ExTypes == {"direct", "fanout"}

NextAssert ==
  \/ \E n \in ExNames, type \in ExTypes, opts \in DeclareOpts :
       DeclareExchange(n, type, opts, AssertLim)
  \/ \E n \in QNames, opts \in DeclareOpts : DeclareQueue(n, opts, AssertLim)
  \/ \E q \in DOMAIN seqs : ConnectOk(q)
  \/ Microtasks
  \/ \E t \in DOMAIN tasks : ChannelOk(t)
  \/ \E t \in DOMAIN tasks : AssertOk(t)
  \/ \E u \in DOMAIN under : EvError(u, AssertLim)

SpecAssert == Init /\ [][NextAssert]_vars

\* ============================================================== properties
InFlight == {q \in DOMAIN seqs : seqs[q].ph \in {"connecting", "sleeping"}}

Declares == {"declareExchange", "declareQueue"}

Registry(op) == IF op = "declareExchange" THEN exchanges ELSE queues

KindOf(op) == IF op = "declareExchange" THEN "E" ELSE "Q"

\* the objects of the declared kind and name, other than the one returned
Others(call) ==
  {o \in DOMAIN objs : /\ objs[o].kind = KindOf(call.op)
                       /\ objs[o].name = call.name
                       /\ o # call.ret}

\* C1: declareExchange / declareQueue on a name that is registered returns the
\* registered object, leaves its type and options as they were, registers
\* nothing new and starts no new assertion.
C1_DeclareRegistered ==
  [][(log'.op \in Declares /\ log'.existed) =>
       /\ log'.ret = MapGet(Registry(log'.op), log'.name)
       /\ log'.ret = log'.pre /\ ~log'.made
       /\ objs' = objs /\ exchanges' = exchanges /\ queues' = queues
       /\ tasks' = tasks /\ chans' = chans]_vars

C1_Redeclared ==
  /\ log.op = "declareExchange" /\ log.existed
  /\ tasks[objs[log.ret].init].ph = "ok"
  /\ Len(objs) = 2

\* C2 (as amended): declarations of one name return the same object from its
\* first declaration until the name is taken out of the registry, which happens
\* when an assertion for that name fails or when a close() / delete() of an
\* entity of that name invalidates it.
C2_SameUntilUnregistered ==
  log.op \in Declares => \A o \in Others(log) : objs[o].dropped

C2_NewAfterFailure ==
  /\ log.op = "declareExchange" /\ log.made
  /\ \E o \in Others(log) :
       objs[o].dropped /\ objs[o].closing = 0 /\ objs[o].deleting = 0

\* C2 (as stated): declarations of one name return the same object from its
\* first declaration until delete() or close() is called on it.
C2_SameUntilDeleteOrClose ==
  log.op \in Declares =>
    \A o \in Others(log) : objs[o].closing # 0 \/ objs[o].deleting # 0

DeleteCalls == {p \in DOMAIN proms : proms[p].kind = "deleteConfiguration"}

\* the chains a call has started
Started(p) == {t \in DOMAIN tasks : proms[p].from < t /\ t <= proms[p].to}

DeleteIssued(kind) == {t \in DOMAIN tasks : tasks[t].kind = kind /\ tasks[t].ph = "delReq"}

\* C3: whenever the promise of deleteConfiguration() has resolved, the bindings,
\* queues and exchanges registries are all empty.
C3_EmptyWhenResolved ==
  \A p \in DeleteCalls :
    Resolved(St, p) => (bindings = <<>> /\ queues = <<>> /\ exchanges = <<>>)

\* C4 (as amended): deleteConfiguration starts the deletions in the order
\* bindings, queues, exchanges, and the deleteQueue / deleteExchange of a node is
\* not issued before the unbind of every registered binding that contains that
\* node has completed.
C4_OwnBindingsFirst ==
  \A p \in DeleteCalls :
    /\ \A t \in DeleteIssued("qdelete") \cup DeleteIssued("xdelete") :
         \A b \in proms[p].binds : Contains(St, b, tasks[t].o) => bobjs[b].unbound
    /\ \A t1 \in Started(p), t2 \in Started(p) :
         \/ (tasks[t1].kind = "unbind" /\ tasks[t2].kind \in {"stop", "qdelete", "xdelete"})
         \/ (tasks[t1].kind \in {"stop", "qdelete"} /\ tasks[t2].kind = "xdelete")
         => t1 < t2

C4_QueueAfterItsUnbind ==
  \E p \in DeleteCalls : \E t \in DeleteIssued("qdelete") : \E b \in proms[p].binds :
    Contains(St, b, tasks[t].o) /\ bobjs[b].unbound

\* C4 (as stated): during deleteConfiguration no deleteQueue is issued before the
\* unbind of every registered binding has completed, and no deleteExchange before
\* every consumer has been cancelled and every deleteQueue has completed.
C4_GlobalOrder ==
  \A p \in DeleteCalls :
    /\ DeleteIssued("qdelete") # {} => \A b \in proms[p].binds : bobjs[b].unbound
    /\ DeleteIssued("xdelete") # {} =>
         /\ \A o \in proms[p].cons : objs[o].consumerInit = 0
         /\ \A o \in proms[p].nodes : objs[o].kind = "Q" => objs[o].deleted

RebuildCalls == {p \in DOMAIN proms : proms[p].kind = "rebuildAll"}

\* the node holds a channel of the connection that sequence q established, and
\* the broker has confirmed the node's assertion on that channel
Reasserted(o, q) ==
  /\ objs[o].ch # 0
  /\ under[chans[objs[o].ch].u].by = q
  /\ chans[objs[o].ch].asserted

\* the queue's consumer is subscribed on the queue's channel, with the recorded
\* callback options and tag
Resubscribed(o) ==
  \E x \in subs : /\ x.q = o /\ x.c = objs[o].ch
                  /\ x.opts = objs[o].consumerOptions
                  /\ x.tag = objs[o].consumerTag

Rebuilt(p) ==
  /\ \A o \in proms[p].nodes : Reasserted(o, proms[p].seq)
  /\ \A o \in proms[p].cons : Resubscribed(o)

\* C5: when the promise returned by _rebuildAll resolves, every exchange and
\* queue registered at the start of the rebuild holds a channel created on the
\* new underlying connection and asserted on it, and every queue that had a
\* consumer is subscribed again on the new channel with the same callback and
\* options and a newly recorded tag.
C5_RebuiltWhenResolved ==
  [][\A p \in RebuildCalls :
       (~Resolved(St, p) /\ Resolved(St, p)') => Rebuilt(p)']_vars

Lost == \E u \in DOMAIN under : under[u].st \in {"errored", "closed"}

\* the readiness latch l has resolved for a chain run on the current connection
ReadyAfresh(l) == l # 0 /\ tasks[l].ph = "ok" /\ tasks[l].u = cur

Recovered ==
  /\ seqs[connInit].latch = "fulfilled"
  /\ cur # 0 /\ under[cur].st = "open" /\ under[cur].by = connInit
  /\ \A o \in Range(MapVals(exchanges)) \cup Range(MapVals(queues)) :
       objs[o].deleted \/ ReadyAfresh(objs[o].init)
  /\ \A b \in Range(MapVals(bindings)) : ReadyAfresh(bobjs[b].init)

\* nothing is left that the broker, a timer or a ready callback could still do,
\* and no 'close' is still to come
AtRest ==
  /\ InFlight = {}
  /\ Runnables(St) = {}
  /\ \A t \in DOMAIN tasks : tasks[t].ph \notin RequestPhases
  /\ \A u \in DOMAIN under : under[u].st \in {"open", "closed"}

\* C6: after an 'error' or an unsolicited 'close' of the underlying connection,
\* with a broker that accepts the connection and the assertions, eventually
\* Connection.initialized is resolved afresh and the readiness of every
\* registered exchange, queue and binding has resolved again. Every pending
\* step is eventually taken, so the system comes to rest; the claim is that it
\* never rests unrecovered.
C6_RestsRecovered == (Lost /\ AtRest) => Recovered

\* C7: a rebuildConnection call made while a connect sequence is running starts
\* no second sequence and returns the latch of the running one, so at most one
\* connect sequence is in flight at any time.
C7_OneSequence ==
  /\ Cardinality(InFlight) <= 1
  /\ rebuilding => InFlight = {connInit}
  /\ (log.op = "rebuildConnection" /\ log.existed) =>
       (~log.made /\ log.ret = log.pre /\ connInit = log.pre)

C7_Reentered == log.op = "rebuildConnection" /\ log.existed /\ Len(seqs) = 2

\* C8: with retries = N > 0 and every attempt refused, the sequence makes exactly
\* N + 1 attempts, one interval delay before each attempt after the first, and
\* none once the budget is spent.
C8_AttemptBudget ==
  retries > 0 =>
    \A q \in DOMAIN seqs :
      /\ seqs[q].attempts = seqs[q].sleeps + 1
      /\ seqs[q].attempts <= retries + 1
      /\ seqs[q].ph = "exhausted" =>
           (seqs[q].attempts = retries + 1 /\ seqs[q].sleeps = retries)

C8_Exhausted ==
  retries = 2 /\ under = <<>> /\ \E q \in DOMAIN seqs : seqs[q].ph = "exhausted"

\* C9: when the retry budget is spent Connection.initialized is rejected with
\* ConnectionExhausted, and it is never fulfilled while no underlying connection
\* has been established.
C9_RejectedWhenExhausted ==
  \A q \in DOMAIN seqs :
    /\ seqs[q].ph = "exhausted" => seqs[q].latch = "rejected"
    /\ (seqs[q].latch = "fulfilled" /\ q = connInit) => cur # 0

\* C10: with retries = 0 the sequence never gives up: as long as the broker
\* refuses, Connection.initialized stays pending and ConnectionExhausted is
\* never raised.
C10_RetryForever ==
  retries = 0 =>
    \A q \in DOMAIN seqs :
      /\ seqs[q].ph # "exhausted"
      /\ seqs[q].latch # "rejected"
      /\ q \in InFlight => seqs[q].latch = "pending"

C10_StillTrying ==
  retries = 0 /\ under = <<>>
    /\ \E q \in DOMAIN seqs : seqs[q].retry = MaxRetry /\ seqs[q].latch = "pending"

\* C11: within one connect sequence in which attempts fail and a later attempt
\* succeeds, Connection.initialized stays pending until the first success, is
\* resolved by it, _rebuilding is cleared in the same step, exactly one underlying
\* connection is taken from the sequence, and afterwards the sequence makes no
\* further attempt and its latch never changes.
C11_ResolvesOnce ==
  [][\A q \in DOMAIN seqs :
       /\ q \in InFlight => seqs[q].latch = "pending"
       /\ (q \in InFlight /\ seqs'[q].ph = "done") =>
            /\ seqs'[q].latch = "fulfilled"
            /\ ~rebuilding'
            /\ seqs'[q].attempts = seqs[q].attempts
            /\ Cardinality({u \in DOMAIN under' : under'[u].by = q}) = 1
       /\ seqs[q].ph = "done" =>
            /\ seqs'[q] = seqs[q]
            /\ {u \in DOMAIN under' : under'[u].by = q} = {u \in DOMAIN under : under[u].by = q}
    ]_vars

C11_SucceededAfterFailures ==
  \E q \in DOMAIN seqs :
    seqs[q].ph = "done" /\ seqs[q].attempts >= 3 /\ seqs[q].latch = "fulfilled" /\ ~rebuilding

\* C12: when the underlying connection emits 'close' while _isClosing is true, the
\* close handler triggers no rebuild: no connect sequence is started, no attempt
\* is made, no entity is re-initialized, and _isClosing stays true.
C12_NoRebuildOnClose ==
  [][\A u \in DOMAIN under :
       (under[u].st # "closed" /\ under'[u].st = "closed" /\ isClosing) =>
         /\ seqs' = seqs
         /\ connInit' = connInit
         /\ rebuilding' = rebuilding
         /\ isClosing'
         /\ Len(tasks') = Len(tasks)
         /\ \A o \in DOMAIN objs : objs'[o].init = objs[o].init
    ]_vars

C12_ClosedByClose ==
  \E u \in DOMAIN under :
    /\ under[u].st = "closed" /\ ~under[u].closeL /\ under[u].errL
    /\ isClosing /\ Len(seqs) = 1 /\ exchanges # <<>>
    /\ \E t \in DOMAIN tasks :
         tasks[t].kind = "connClose" /\ tasks[t].ph = "ok" /\ tasks[t].u = u

CloseCalled == \E t \in DOMAIN tasks : tasks[t].kind = "connClose"

\* C13: close() is terminal: once close() has been called, whatever 'error' and
\* 'close' events and publish failures follow, _isClosing stays true and no new
\* connect sequence is started.
C13_CloseIsTerminal ==
  [][CloseCalled => (isClosing' /\ Len(seqs') = Len(seqs))]_vars

\* the subscriptions of queue o that the broker still serves
LiveSubs(o) ==
  {x \in subs : x.q = o /\ chans[x.c].open /\ Alive(St, chans[x.c].u)}

\* C14: a queue has at most one live consumer subscription created by this client:
\* activateConsumer on a queue whose consumer is active starts no consume chain and
\* returns the existing _consumerInitialized, and a rebuild adds no second
\* subscription.
C14_OneSubscription ==
  /\ \A o \in DOMAIN objs : Cardinality(LiveSubs(o)) <= 1
  /\ (log.op = "activateConsumer" /\ log.existed) => (~log.made /\ log.ret = log.pre)

\* the channel.cancel requests issued for the subscription with this tag
Cancels(tag) == {t \in DOMAIN tasks : tasks[t].rq = "cancel" /\ tasks[t].arg = tag}

\* C15: stopConsumer is a no-op without an active consumer or while a stop is in
\* progress: however many stopConsumer calls overlap, channel.cancel is issued
\* at most once for a subscription, and once a stop has completed the consumer
\* state is cleared until the next activateConsumer.
C15_CancelOnce ==
  /\ \A x \in subs : Cardinality(Cancels(x.tag)) <= 1
  /\ \A t \in DOMAIN tasks : Cardinality(Cancels(t)) <= 1
  /\ (log.op = "stopConsumer" /\ ~log.existed) => ~log.made

TeardownKinds == {"xdelete", "qdelete", "xclose", "qclose"}

TeardownOps == {"Exchange.delete", "Queue.delete", "Exchange.close", "Queue.close"}

\* C16: delete() and close() are idempotent on Exchange and Queue: the first call
\* creates the latch and returns it, every later call returns that same latch and
\* starts nothing, so an object has at most one chain of each teardown operation.
C16_Idempotent ==
  /\ \A o \in DOMAIN objs, k \in TeardownKinds :
       Cardinality({t \in DOMAIN tasks : tasks[t].kind = k /\ tasks[t].o = o}) <= 1
  /\ log.op \in TeardownOps =>
       /\ log.ret # 0
       /\ log.pre # 0 => (log.ret = log.pre /\ ~log.made)

\* the delete() chains of object o that have run to their end
DeleteDone(o) ==
  {t \in DOMAIN tasks :
     tasks[t].kind \in {"xdelete", "qdelete"} /\ tasks[t].o = o /\ tasks[t].ph = "ok"}

\* C17: once delete() of an exchange or a queue has completed, its name is no
\* longer in the registry, the broker was asked to delete it, its channel is
\* closed, its connection and channel references are dropped, and a declaration
\* of the name does not return the deleted object.
C17_GoneAfterDelete ==
  \A o \in DOMAIN objs : \A t \in DeleteDone(o) :
    /\ o \notin Range(MapVals(exchanges)) \cup Range(MapVals(queues))
    /\ objs[o].deleted
    /\ ~chans[tasks[t].c].open
    /\ ~objs[o].conn /\ objs[o].ch = 0
    /\ log.op \in {"declareExchange", "declareQueue"} => log.ret # o

Registered(o) == o \in Range(MapVals(exchanges)) \cup Range(MapVals(queues))

\* C18: a Binding is in Connection._bindings if and only if its source exchange
\* and its destination are both registered and its deletion has not completed.
C18_BindingIffEndpoints ==
  \A b \in DOMAIN bobjs :
    b \in Range(MapVals(bindings)) <=>
      (Registered(bobjs[b].src) /\ Registered(bobjs[b].dst) /\ ~bobjs[b].unbound)

Replayed(t) ==
  /\ tasks[t].kind \in {"send", "consume"}
  /\ tasks[t].rb # 0
  /\ tasks[t].rq \in {"publish", "consume"}

C20_ReplayedOnNewChannel ==
  \A t \in DOMAIN tasks :
    (Replayed(t) /\ Registered(tasks[t].o)) =>
      /\ tasks[tasks[t].w].ph = "ok"
      /\ tasks[tasks[t].w].w >= tasks[t].rb
      /\ under[chans[tasks[t].c].u].by >= tasks[t].rb

\* a publish and a consume chained during a rebuild have both been issued, and the
\* queue held a channel of the lost connection
C20_ReplayedAfterLoss ==
  /\ \E t \in DOMAIN tasks : Replayed(t) /\ tasks[t].kind = "send" /\ tasks[t].rb >= 2
  /\ \E t \in DOMAIN tasks : Replayed(t) /\ tasks[t].kind = "consume" /\ tasks[t].rb >= 2
  /\ \E c \in DOMAIN chans : under[chans[c].u].by = 1
\* C21: for two messages sent to the same node, the publish of the first is issued
\* before the publish of the second.
C21_PublishedInOrder ==
  \A t1, t2 \in DOMAIN tasks :
    (/\ tasks[t1].kind = "send" /\ tasks[t2].kind = "send"
     /\ tasks[t1].o = tasks[t2].o /\ t1 < t2
     /\ tasks[t2].rq = "publish")
      => (tasks[t1].rq = "publish" /\ tasks[t1].n < tasks[t2].n)

\* two messages sent to one node have both been published
C21_TwoPublished ==
  \E t1, t2 \in DOMAIN tasks :
    /\ tasks[t1].kind = "send" /\ tasks[t2].kind = "send"
    /\ tasks[t1].o = tasks[t2].o /\ t1 < t2
    /\ tasks[t1].rq = "publish" /\ tasks[t2].rq = "publish"
\* C22: a message whose publish has thrown is published again after the rebuild it
\* has triggered: once everything pending has been answered, the message has been
\* published, on a channel of the connection in use (it is not dropped; a message
\* has one publish at most by the construction of sendRun).
Failed(t) == tasks[t].kind = "send" /\ tasks[t].arg # 0

C22_Retransmitted ==
  AtRest =>
    \A t \in DOMAIN tasks :
      Failed(t) => (tasks[t].ph = "ok" /\ tasks[t].rq = "publish" /\ tasks[t].u = cur)

\* a message whose publish had thrown has been published
C22_SentAgain == \E t \in DOMAIN tasks : Failed(t) /\ tasks[t].rq = "publish"
\* C23: each rpc promise that has resolved has resolved with the reply that
\* carries its own correlation id, in whatever order the replies come in.
C23_OwnReply ==
  \A t \in DOMAIN tasks :
    (tasks[t].kind = "rpc" /\ tasks[t].ph = "ok") => tasks[t].arg = CorrelationId(t)

\* two calls were pending together and the later one has got its reply first
C23_LaterAnsweredFirst ==
  \E t1, t2 \in DOMAIN tasks :
    /\ t1 < t2 /\ tasks[t1].kind = "rpc" /\ tasks[t2].kind = "rpc"
    /\ tasks[t1].ph = "listening" /\ tasks[t2].ph = "ok"
    /\ \A m \in tasks[t1].ws : tasks[m].rq = "publish"

\* the step is a refusal by the broker
Refused == fails' = fails + 1

RefusedTask ==
  CHOOSE t \in DOMAIN tasks :
    tasks[t].ph \in {"assertReq", "bindReq"} /\ tasks'[t].ph # tasks[t].ph

RegisteredNext(o) == o \in Range(MapVals(exchanges')) \cup Range(MapVals(queues'))

NodeUntouched(o) ==
  /\ RegisteredNext(o)
  /\ objs'[o].init = objs[o].init
  /\ tasks'[objs[o].init].ph = tasks[objs[o].init].ph

BindingUntouched(b) ==
  /\ b \in Range(MapVals(bindings'))
  /\ bobjs'[b].init = bobjs[b].init
  /\ tasks'[bobjs[b].init].ph = tasks[bobjs[b].init].ph

\* C24: when the broker refuses an assertion or a bind, the readiness of that
\* entity rejects and the entity leaves its registry; no connect sequence starts
\* and the connection is untouched; every other registered entity stays
\* registered with the readiness it had.
\* (The bindings whose destination is the refused node hang on its readiness:
\* they reject and leave the registry with it, and are not counted as others.)
C24_RefusalIsolated ==
  [][Refused =>
       LET t == RefusedTask
           node == IF tasks[t].kind = "init" THEN tasks[t].o ELSE 0
           bnd == IF tasks[t].kind = "bind" THEN tasks[t].o ELSE 0
       IN /\ tasks'[t].ph = "rejected"
          /\ node # 0 => ~RegisteredNext(node)
          /\ bnd # 0 => bnd \notin Range(MapVals(bindings'))
          /\ seqs' = seqs /\ under' = under /\ cur' = cur /\ rebuilding' = rebuilding
          /\ \A o \in DOMAIN objs : (Registered(o) /\ o # node) => NodeUntouched(o)
          /\ \A b \in Range(MapVals(bindings)) :
               (b # bnd /\ bobjs[b].dst # node) => BindingUntouched(b)
    ]_vars

\* a refusal has taken place while another entity was registered
C24_RefusedBesideOthers ==
  /\ fails > 0
  /\ \E t \in DOMAIN tasks : tasks[t].ph = "rejected" /\ tasks[t].rq \in {"assert", "check", "bindQueue", "bindExchange"}
  /\ exchanges # <<>> \/ queues # <<>>
\* ---- declareTopology
Invalid(binding) == binding.exchange = Undefined /\ binding.queue = Undefined

HasInvalid(topology) == \E i \in DOMAIN topology.bindings : Invalid(topology.bindings[i])

\* the bindings of a topology that precede its first invalid one
ValidPrefix(topology) ==
  {i \in DOMAIN topology.bindings : \A j \in 1..i : ~Invalid(topology.bindings[j])}

Keys(m) == {m[i].k : i \in DOMAIN m}

\* C25: a declareTopology call whose topology holds a binding with neither queue nor
\* exchange fails with the InvalidBinding error, and the call declares no destination
\* and constructs no Binding for that binding: the Bindings it constructs are at most
\* those of the valid bindings before it, and it registers no name the topology
\* does not give
C25_InvalidBindingThrows ==
  [][(log'.op = "declareTopology" /\ HasInvalid(log'.arg)) =>
       /\ log'.err = "InvalidBinding"
       /\ Len(bobjs') - Len(bobjs) <= Cardinality(ValidPrefix(log'.arg))
       /\ Keys(exchanges') \subseteq
            Keys(exchanges) \cup Range(log'.arg.exchanges)
              \cup {log'.arg.bindings[i].source : i \in DOMAIN log'.arg.bindings}
              \cup {log'.arg.bindings[i].exchange : i \in ValidPrefix(log'.arg)}
       /\ Keys(queues') \subseteq
            Keys(queues) \cup Range(log'.arg.queues)
              \cup {log'.arg.bindings[i].queue : i \in ValidPrefix(log'.arg)}]_vars

\* an earlier binding of the same topology throws before the invalid one is reached
C25_OtherErrorFirst ==
  log.op = "declareTopology" /\ HasInvalid(log.arg) /\ log.err = "TypeError"

\* ---- the order of a rebuild
ReinitOf(p, kind, nodeKind) ==
  {t \in Started(p) : tasks[t].kind = kind /\ (kind = "init" => objs[tasks[t].o].kind = nodeKind)}

\* C26: in a rebuild the re-initialization of every exchange registered at its start
\* is started before that of any queue, and the re-initialization of every binding
\* is started after every queue re-initialization and every consumer re-subscription
\* of that rebuild has been started (chains are numbered in the order they start)
C26_RebuildOrder ==
  \A p \in RebuildCalls :
    /\ \A o \in proms[p].nodes :
         \E t \in ReinitOf(p, "init", objs[o].kind) : tasks[t].o = o
    /\ \A o \in proms[p].cons : \E t \in ReinitOf(p, "consume", "Q") : tasks[t].o = o
    /\ \A b \in proms[p].binds : \E t \in ReinitOf(p, "bind", "Q") : tasks[t].o = b
    /\ \A x \in ReinitOf(p, "init", "E") :
         \A t \in ReinitOf(p, "init", "Q") \cup ReinitOf(p, "consume", "Q")
                    \cup ReinitOf(p, "bind", "Q") : x < t
    /\ \A t \in ReinitOf(p, "init", "Q") \cup ReinitOf(p, "consume", "Q") :
         \A b \in ReinitOf(p, "bind", "Q") : t < b

C26_RebuildOfAll ==
  \E p \in RebuildCalls :
    /\ ReinitOf(p, "init", "E") # {} /\ ReinitOf(p, "init", "Q") # {}
    /\ ReinitOf(p, "consume", "Q") # {} /\ ReinitOf(p, "bind", "Q") # {}

\* ---- Binding.id
\* C27: two calls of Binding.id return the same id only if the source names, the
\* destination names, the kinds of the destinations and the patterns are equal
C27_IdInjective ==
  log.op = "Binding.id" => (log.ids[1] = log.ids[2] => log.arg[1] = log.arg[2])

C27_BracketsInNames ==
  /\ log.op = "Binding.id" /\ log.arg[1] # log.arg[2]
  /\ \E i \in 1..2 : log.arg[i].dst = <<"]">> \/ log.arg[i].pattern = <<"]">>

\* ---- Message content
\* equal strings, byte-identical buffers, deeply equal objects
RECURSIVE DeepEqual(_, _)
DeepEqual(a, b) ==
  /\ TypeOf(a) = TypeOf(b)
  /\ IF TypeOf(a) = "object" THEN DeepEqual(ValueOf(a), ValueOf(b))
     ELSE ValueOf(a) = ValueOf(b)

\* C28: getContent after setContent(c) returns c: an equal string for a string, a
\* deeply equal value for an object, a buffer of the same bytes for a buffer
C28_RoundTrip == log.op = "getContent" => DeepEqual(log.got, log.set)

C28_BufferRead == log.op = "getContent" /\ TypeOf(log.set) = "buffer" /\ ValueOf(log.set) # <<>>

\* what holds: a string read back from a message that never held an object, and an
\* object, are returned as they were set
C28_StringsAndObjects ==
  (log.op = "getContent" /\ TypeOf(log.set) # "buffer"
     /\ (TypeOf(log.set) = "string" => message.contentType = ""))
    => DeepEqual(log.got, log.set)
\* ---- the request of a binding
\* the chain t issues its bind request in this step
BindIssued(t) ==
  /\ tasks'[t].kind = "bind" /\ tasks'[t].ph = "bindReq"
  /\ IF t \in DOMAIN tasks THEN tasks[t].ph # "bindReq" ELSE TRUE

\* C29: when a binding issues its request, the current readiness of its destination
\* has resolved, the request goes to the destination's channel, and it is bindQueue
\* exactly when the destination is a Queue, bindExchange otherwise; in first
\* initializations and in the re-initializations of a rebuild alike
C29_BindAfterReady ==
  [][\A t \in DOMAIN tasks' : BindIssued(t) =>
       LET dst == bobjs'[tasks'[t].o].dst IN
       /\ objs'[dst].init # 0
       /\ tasks'[objs'[dst].init].ph = "ok"
       /\ tasks'[t].c # 0 /\ tasks'[t].c = objs'[dst].ch
       /\ tasks'[t].rq = (IF objs'[dst].kind = "Q" THEN "bindQueue" ELSE "bindExchange")]_vars

C29_BoundAgain ==
  \E p \in RebuildCalls : \E t \in ReinitOf(p, "bind", "Q") :
    /\ tasks[t].ph = "bindReq" /\ tasks[t].rq = "bindQueue"
    /\ under[tasks[t].u].by = proms[p].seq

\* ---- prefetch
\* the chain t settles as resolved in this step
Resolves(t, kind) ==
  /\ tasks'[t].kind = kind /\ tasks'[t].ph = "ok"
  /\ IF t \in DOMAIN tasks THEN tasks[t].ph # "ok" ELSE TRUE

\* the counts of the prefetch calls on the queue o that take effect in this step
TakingEffect(o) ==
  {tasks'[t].arg : t \in {x \in DOMAIN tasks' : Resolves(x, "prefetch") /\ tasks'[x].o = o}}

C31_RejectionSurvived ==
  [][log'.op = "deliver" =>
       /\ log'.outcome = "reject" =>
            (log'.acks = 0 /\ log'.nacks = 0 /\ subs' = subs /\ objs' = objs)
       /\ log'.after => log'.called]_vars

C31_DeliveredAfterRejection ==
  log.op = "deliver" /\ log.after /\ log.called /\ log.outcome = "reject"

\* ---- one rebuild for one failure
\* the underlying connections that have failed
FailedConnections == {u \in DOMAIN under : under[u].st \in {"errored", "closed"}}

InitChains(o) == {t \in DOMAIN tasks : tasks[t].kind = "init" /\ tasks[t].o = o}

\* C32: a failure of the underlying connection, raising 'error' and then 'close',
\* re-initializes every registered exchange and queue once: an entity has at most
\* one initialization for its declaration and one for each connection that failed
C32_OnceForAFailure ==
  \A o \in DOMAIN objs :
    Cardinality(InitChains(o)) <= 1 + Cardinality(FailedConnections)

C32_ErrorThenClose ==
  /\ \E u \in DOMAIN under : under[u].st = "closed"
  /\ \E o \in DOMAIN objs : Cardinality(InitChains(o)) >= 2

\* ---- one underlying connection at a time
OpenConnections == {u \in DOMAIN under : under[u].st \in {"open", "closing"}}

\* C33: at most one of the underlying connections opened by the Connection is open
\* at any time
C33_OneOpenConnection == Cardinality(OpenConnections) <= 1

\* a rebuild for a 'close' that came after the rebuild for the 'error' had completed
\* has established its connection
C33_RebuiltAfterLateClose ==
  \E u, v \in DOMAIN under :
    /\ u < v /\ v < Len(under)
    /\ under[u].st = "closed"
    /\ under[Len(under)].st = "open"

\* ---- assertion failures of an earlier incarnation
\* the assertion of chain t fails in this step
AssertionFails(t) ==
  /\ tasks[t].kind = "init" /\ tasks[t].ph = "assertReq"
  /\ tasks'[t].ph \in {"rejected", "stuck"}

\* chain t is not the initialization its entity currently stands on
Superseded(t) == objs[tasks[t].o].init # t

\* C34: the failure of an assertion that a rebuild has superseded does not take
\* its entity out of the registry
C34_SupersededFailureKeeps ==
  [][\A t \in DOMAIN tasks :
       (AssertionFails(t) /\ Superseded(t) /\ Registered(tasks[t].o))
         => RegisteredNext(tasks[t].o)]_vars

\* the assertion of a superseded initialization has failed
C34_SupersededFailed ==
  \E t \in DOMAIN tasks :
    /\ tasks[t].kind = "init" /\ tasks[t].rq \in {"assert", "check"}
    /\ tasks[t].ph = "rejected"
    /\ Superseded(t) /\ objs[tasks[t].o].init # 0

\* ---- the source of a binding
\* C35: when a binding issues its bindQueue / bindExchange, the assertion of its
\* source exchange has completed
C35_SourceAssertedFirst ==
  [][\A t \in DOMAIN tasks' : BindIssued(t) =>
       LET src == bobjs'[tasks'[t].o].src IN
       /\ objs'[src].init # 0
       /\ tasks'[objs'[src].init].ph = "ok"]_vars

\* a bind request is at the broker and the channel of its source exchange has not
\* been created yet
C35_BoundBeforeSource ==
  \E t \in DOMAIN tasks :
    /\ tasks[t].kind = "bind" /\ tasks[t].ph = "bindReq"
    /\ LET src == bobjs[tasks[t].o].src IN
       /\ objs[src].init # 0
       /\ tasks[objs[src].init].ph = "chanReq"
       /\ \A x \in DOMAIN tasks :
            (tasks[x].kind = "init" /\ tasks[x].o = src) => x = objs[src].init

\* ---- a stopped consumer
\* C36: once a stopConsumer() has resolved the queue has no live subscription at
\* the broker, so no delivery reaches the wrapper (the consumer is not activated
\* again after the stop)
C36_StoppedHasNoSubscription ==
  \A t \in StopCalls : tasks[t].ph = "ok" => LiveSubs(tasks[t].o) = {}

\* a delivery has reached the wrapper of a queue whose stopConsumer() has resolved
C36_DeliveredAfterStop ==
  /\ log.op = "deliver"
  /\ \E t \in StopCalls, x \in subs :
       tasks[t].ph = "ok" /\ x.tag = log.ret /\ x.q = tasks[t].o

\* ---- a rebuild goes through the whole registry
\* the 'error' handler of an underlying connection runs in this step
RebuildRuns ==
  \E u \in DOMAIN under :
    under[u].errL /\ under[u].st # "errored" /\ under'[u].st = "errored"

StartedNow(kind, o) ==
  \E t \in DOMAIN tasks' :
    t \notin DOMAIN tasks /\ tasks'[t].kind = kind /\ tasks'[t].o = o

\* C37: a rebuild starts the re-initialization of every registered queue and of
\* every registered binding, whatever declare, delete() and close() calls came
\* before
C37_RebuildReachesAll ==
  [][RebuildRuns =>
       /\ \A o \in Range(MapVals(queues)) : StartedNow("init", o)
       /\ \A b \in Range(MapVals(bindings)) : StartedNow("bind", b)]_vars

\* a rebuild has run after the delete() of an exchange had completed, with a
\* queue registered
C37_RebuiltAfterDelete ==
  /\ \E u \in DOMAIN under : under[u].st = "errored" /\ ~under[u].errL
  /\ \E o \in DOMAIN objs : objs[o].kind = "E" /\ DeleteDone(o) # {}
  /\ queues # <<>>
  /\ \A o \in Range(MapVals(queues)) : Cardinality(InitChains(o)) = 1

\* ---- the listener of an rpc call
\* the request of call r is at the broker and the call has no reply yet
AwaitingReply(r) ==
  {m \in tasks[r].ws : tasks[m].rq = "publish" /\ tasks[r].ph # "ok"}

\* C38: from the moment the request of an rpc() call is published until its
\* reply has come in, the one-shot listener for its correlation id is attached
\* to the channel that published it; the promise of the call is settled once
C38_ListenerBeforePublish ==
  [][\A r \in DOMAIN tasks' : tasks'[r].kind = "rpc" =>
       /\ \A m \in tasks'[r].ws :
            (tasks'[m].rq = "publish" /\ tasks'[r].ph # "ok")
              => [ev |-> CorrelationId(r), call |-> r] \in chans'[tasks'[m].c].listeners
       /\ (r \in DOMAIN tasks /\ tasks[r].ph = "ok") => tasks'[r] = tasks[r]]_vars

\* the request of a call has been retransmitted on a new channel and its listener
\* has stayed on the channel the exchange held when rpc() ran
C38_ListenerLeftBehind ==
  \E r \in RpcCalls : \E m \in AwaitingReply(r) :
    /\ chans[tasks[m].c].reply /\ Reachable(m)
    /\ [ev |-> CorrelationId(r), call |-> r] \notin chans[tasks[m].c].listeners
    /\ [ev |-> CorrelationId(r), call |-> r] \in chans[tasks[r].c].listeners

\* ---- a topology with an invalid binding
FirstInvalid(topology) ==
  CHOOSE i \in DOMAIN topology.bindings :
    Invalid(topology.bindings[i]) /\ i - 1 \in ValidPrefix(topology) \cup {0}

\* the name is registered in the map m and its object has an initialization chain
DeclaredIn(m, os, ts, name) ==
  /\ name \in Keys(m)
  /\ os[MapGet(m, name)].init # 0
  /\ ts[os[MapGet(m, name)].init].kind = "init"

\* a Binding for this topology binding is registered and its chain has been started
BoundIn(m, bs, os, binding) ==
  \E b \in Range(MapVals(m)) :
    /\ os[bs[b].src].name = binding.source
    /\ os[bs[b].dst].name = (IF binding.exchange # Undefined THEN binding.exchange
                             ELSE binding.queue)
    /\ os[bs[b].dst].kind = (IF binding.exchange # Undefined THEN "E" ELSE "Q")
    /\ bs[b].pattern = binding.pattern
    /\ bs[b].init # 0

Asserting == {t \in DOMAIN tasks : tasks[t].kind = "init" /\ tasks[t].rq \in {"assert", "check"}}

\* C40: the request of every initialization, first or of a rebuild, is
\* assertExchange with the exchange's type and options, assertQueue with the
\* queue's options, or for an entity with noCreate a passive check
C40_AssertCarriesOptions ==
  \A t \in Asserting :
    LET o == objs[tasks[t].o]
        sent == chans[tasks[t].c].sent
    IN IF o.opts.noCreate
       THEN sent = <<(IF o.kind = "E" THEN "checkExchange" ELSE "checkQueue"), o.name>>
       ELSE /\ sent[1] = (IF o.kind = "E" THEN "assertExchange" ELSE "assertQueue")
            /\ sent[2] = o.name
            /\ sent[Len(sent)] = o.opts
            /\ o.kind = "E" => (Len(sent) = 4 /\ sent[3] = o.type)
            /\ o.kind = "Q" => Len(sent) = 3

\* the broker has confirmed the assertion of a queue declared durable, after a
\* rebuild
C40_DurableQueueAsserted ==
  \E t \in Asserting :
    /\ objs[tasks[t].o].kind = "Q"
    /\ objs[tasks[t].o].opts.durable /\ ~objs[tasks[t].o].opts.noCreate
    /\ tasks[t].ph = "ok" /\ tasks[t].u > 1

====
